---- MODULE Spec2Model ----
(***************************************************************************)
(* Model of godown: Convert parses an HTML byte stream into a node tree    *)
(* and walks it, writing Markdown to an output sink.                        *)
(*                                                                          *)
(* The repository holds several revisions of the converter.  The model     *)
(* follows the most complete one, src/unnamed/part_001 (Option.TrimSpace,  *)
(* customRulesMap, title attributes, escaping), which is the revision that *)
(* src/godown_test.go exercises.                                            *)
(*                                                                          *)
(* Strings are sequences of bytes.  A byte is written as a one-character   *)
(* string; the bytes of multi-byte UTF-8 characters are written "xC2",     *)
(* "xC3", "xA0", ... so that the code's byte-wise and rune-wise scans can  *)
(* be told apart.                                                           *)
(***************************************************************************)
EXTENDS Integers, Sequences, FiniteSets, TLC

(***************************************************************************)
(* Bytes, runes and the string functions of the Go library the code uses.  *)
(***************************************************************************)

\* The bytes '\t', '\n', '\v', '\f', '\r', ' ' ("x0B" stands for '\v').
AsciiSpace == {"\t", "\n", "x0B", "\f", "\r", " "}

\* unicode.IsSpace(rune(c)) for a single byte c: the Latin-1 white space,
\* which includes U+0085 and U+00A0.
IsSpaceByte(c) == c \in AsciiSpace \cup {"x85", "xA0"}

\* Lead bytes of the multi-byte characters of the model's alphabet:
\* two-byte sequences start with xC2 or xC3, three-byte ones with xE3.
RuneLen(s) ==
  IF s = <<>> THEN 0
  ELSE IF s[1] \in {"xC2", "xC3"} /\ Len(s) >= 2 THEN 2
  ELSE IF s[1] = "xE3" /\ Len(s) >= 3 THEN 3
  ELSE 1

\* unicode.IsSpace of the first rune of s (U+0085 is xC2 x85, U+00A0 is
\* xC2 xA0).
FirstRuneIsSpace(s) ==
  \/ s[1] \in AsciiSpace
  \/ Len(s) >= 2 /\ s[1] = "xC2" /\ s[2] \in {"x85", "xA0"}

\* unicode.IsSpace of the last rune of s.
LastRuneIsSpace(s) ==
  \/ s[Len(s)] \in AsciiSpace
  \/ Len(s) >= 2 /\ s[Len(s) - 1] = "xC2" /\ s[Len(s)] \in {"x85", "xA0"}

LastRuneLen(s) ==
  IF Len(s) >= 2 /\ s[Len(s) - 1] \in {"xC2", "xC3"} THEN 2
  ELSE IF Len(s) >= 3 /\ s[Len(s) - 2] = "xE3" THEN 3
  ELSE 1

RECURSIVE TrimLeftSpace(_)
TrimLeftSpace(s) ==
  IF s = <<>> THEN s
  ELSE IF FirstRuneIsSpace(s)
       THEN TrimLeftSpace(SubSeq(s, RuneLen(s) + 1, Len(s)))
       ELSE s

RECURSIVE TrimRightSpace(_)
TrimRightSpace(s) ==
  IF s = <<>> THEN s
  ELSE IF LastRuneIsSpace(s)
       THEN TrimRightSpace(SubSeq(s, 1, Len(s) - LastRuneLen(s)))
       ELSE s

\* strings.TrimSpace: removes leading and trailing Unicode white space,
\* rune by rune.
TrimSpace(s) == TrimRightSpace(TrimLeftSpace(s))

RECURSIVE TrimLeftSet(_, _)
TrimLeftSet(s, cutset) ==
  IF s # <<>> /\ s[1] \in cutset THEN TrimLeftSet(Tail(s), cutset) ELSE s

RECURSIVE TrimRightSet(_, _)
TrimRightSet(s, cutset) ==
  IF s # <<>> /\ s[Len(s)] \in cutset
  THEN TrimRightSet(SubSeq(s, 1, Len(s) - 1), cutset)
  ELSE s

\* strings.Trim(s, cutset) for a cutset of ASCII bytes.
Trim(s, cutset) == TrimRightSet(TrimLeftSet(s, cutset), cutset)

\* strings.TrimLeft(s, cutset)
TrimLeft(s, cutset) == TrimLeftSet(s, cutset)

\* strings.HasSuffix(s, "\n")
HasSuffixNL(s) == s # <<>> /\ s[Len(s)] = "\n"

HasPrefix(s, p) == Len(s) >= Len(p) /\ SubSeq(s, 1, Len(p)) = p

\* strings.Repeat(unit, count); a negative count panics in Go and is
\* guarded by the callers below.
RECURSIVE Repeat(_, _)
Repeat(unit, count) ==
  IF count <= 0 THEN <<>> ELSE unit \o Repeat(unit, count - 1)

\* strings.Split(s, "\n"): always at least one element.
RECURSIVE Split(_)
Split(s) ==
  IF \A k \in 1..Len(s) : s[k] # "\n" THEN <<s>>
  ELSE LET k == CHOOSE j \in 1..Len(s) :
                  s[j] = "\n" /\ \A m \in 1..(j - 1) : s[m] # "\n"
       IN <<SubSeq(s, 1, k - 1)>> \o Split(SubSeq(s, k + 1, Len(s)))

\* Length in bytes of the longest prefix of s that holds no white-space rune.
RECURSIVE FieldLen(_)
FieldLen(s) ==
  IF s = <<>> \/ FirstRuneIsSpace(s) THEN 0
  ELSE RuneLen(s) + FieldLen(SubSeq(s, RuneLen(s) + 1, Len(s)))

\* strings.Fields(s): the maximal runs of non-space runes.
RECURSIVE Fields(_)
Fields(s) ==
  LET t == TrimLeftSpace(s)
  IN IF t = <<>> THEN <<>>
     ELSE <<SubSeq(t, 1, FieldLen(t))>>
          \o Fields(SubSeq(t, FieldLen(t) + 1, Len(t)))

\* strings.ToLower on the ASCII letters the model's alphabet holds.
LowerOf(c) ==
  CASE c = "D" -> "d"
    [] c = "I" -> "i"
    [] c = "V" -> "v"
    [] c = "T" -> "t"
    [] OTHER -> c

ToLower(s) == [k \in 1..Len(s) |-> LowerOf(s[k])]

\* The replacement as it would be for the expression [[:space:]]: every
\* byte of white space becomes a space.
RECURSIVE CollapseEach(_)
CollapseEach(s) ==
  IF s = <<>> THEN s
  ELSE (IF s[1] \in AsciiSpace THEN <<" ">> ELSE <<s[1]>>)
       \o CollapseEach(Tail(s))

\* regexp [[:space:]][[:space:]]* ReplaceAllString(s, " "): every maximal
\* run of ASCII white space becomes one space.
RECURSIVE CollapseSpace(_)
CollapseSpace(s) ==
  IF s = <<>> THEN s
  ELSE IF s[1] \in AsciiSpace
       THEN <<" ">> \o CollapseSpace(TrimLeftSet(s, AsciiSpace))
       ELSE <<s[1]>> \o CollapseSpace(Tail(s))

\* The characters escapeRegex matches ("x60" is the backtick).
EscapeChars ==
  {"\\", "*", "_", "[", "]", "(", ")", "<", ">", "#", "+", "-", "!", "x60"}

\* Escape as it would be if the expression did not match the backslash.
RECURSIVE EscapeButBackslash(_)
EscapeButBackslash(s) ==
  IF s = <<>> THEN s
  ELSE (IF s[1] \in EscapeChars \ {"\\"} THEN <<"\\", s[1]>> ELSE <<s[1]>>)
       \o EscapeButBackslash(Tail(s))

\* escapeRegex.ReplaceAllStringFunc: a backslash is put before every match.
RECURSIVE Escape(_)
Escape(s) ==
  IF s = <<>> THEN s
  ELSE (IF s[1] \in EscapeChars THEN <<"\\", s[1]>> ELSE <<s[1]>>)
       \o Escape(Tail(s))

\* runewidth.RuneWidth summed over the runes of s: control characters take
\* no column, the three-byte characters of the alphabet are wide.
RECURSIVE StringWidth(_)
StringWidth(s) ==
  IF s = <<>> THEN 0
  ELSE LET k == RuneLen(s)
           w == IF k = 3 THEN 2
                ELSE IF k = 1 /\ s[1] \in AsciiSpace \ {" "} THEN 0
                ELSE 1
       IN w + StringWidth(SubSeq(s, k + 1, Len(s)))

\* strconv.Itoa for n >= 0 (the %d verb).
Digits == <<"0", "1", "2", "3", "4", "5", "6", "7", "8", "9">>

RECURSIVE Itoa(_)
Itoa(n) ==
  IF n < 10 THEN <<Digits[n + 1]>>
  ELSE Itoa(n \div 10) \o <<Digits[(n % 10) + 1]>>

\* strconv.Quote without the surrounding quotes (the %q verb): the quote and
\* the backslash get a backslash, control characters their Go escape, the
\* non-printable U+00A0 its \u escape; printable runes are copied.
RECURSIVE QuoteBody(_)
QuoteBody(s) ==
  IF s = <<>> THEN s
  ELSE LET k == RuneLen(s)
           r == SubSeq(s, 1, k)
           q == CASE r = <<"\"">> -> <<"\\", "\"">>
                  [] r = <<"\\">> -> <<"\\", "\\">>
                  [] r = <<"\n">> -> <<"\\", "n">>
                  [] r = <<"\t">> -> <<"\\", "t">>
                  [] r = <<"xC2", "xA0">> -> <<"\\", "u", "0", "0", "a", "0">>
                  [] OTHER -> r
       IN q \o QuoteBody(SubSeq(s, k + 1, Len(s)))

Quote(s) == <<"\"">> \o QuoteBody(s) \o <<"\"">>

\* The bytes fmt skips between a % and its verb: flags, width, precision.
FlagBytes == {"+", "-", "#", " ", "."} \cup {Digits[k] : k \in 1..10}

\* fmt.Fprintf(w, format) with no operands: text is copied, %% gives %, a %
\* with a verb gives %!verb(MISSING), a % at the end gives %!(NOVERB).
RECURSIVE FormatNoArgs(_)
FormatNoArgs(s) ==
  IF s = <<>> THEN s
  ELSE IF s[1] # "%" THEN <<s[1]>> \o FormatNoArgs(Tail(s))
  ELSE LET t == TrimLeftSet(Tail(s), FlagBytes)
       IN IF t = <<>>
          THEN <<"%", "!", "(", "N", "O", "V", "E", "R", "B", ")">>
          ELSE IF t[1] = "%" THEN <<"%">> \o FormatNoArgs(Tail(t))
          ELSE <<"%", "!">> \o SubSeq(t, 1, RuneLen(t))
               \o <<"(", "M", "I", "S", "S", "I", "N", "G", ")">>
               \o FormatNoArgs(SubSeq(t, RuneLen(t) + 1, Len(t)))

RECURSIVE Concat(_)
Concat(ss) == IF ss = <<>> THEN <<>> ELSE Head(ss) \o Concat(Tail(ss))

(***************************************************************************)
(* The node tree of golang.org/x/net/html.  A node is a record; Child is   *)
(* the list FirstChild, FirstChild.NextSibling, ...  The parent and the     *)
(* previous sibling of a child are its position in the parent's list.       *)
(***************************************************************************)

Text(d) == [Type |-> "Text", Data |-> d, Attr |-> <<>>, Child |-> <<>>]

Comment(d) == [Type |-> "Comment", Data |-> d, Attr |-> <<>>, Child |-> <<>>]

Elem(tag, attrs, kids) ==
  [Type |-> "Element", Data |-> tag, Attr |-> attrs, Child |-> kids]

Document(kids) ==
  [Type |-> "Document", Data |-> <<>>, Attr |-> <<>>, Child |-> kids]

\* A nil *html.Node.
NilNode == [Type |-> "Nil", Data |-> <<>>, Attr |-> <<>>, Child |-> <<>>]

Att(key, val) == [Key |-> key, Val |-> val]

\* The element names the code tests for, and those of the documents, as bytes.
Tag ==
  [a |-> <<"a">>, b |-> <<"b">>,
   strong |-> <<"s", "t", "r", "o", "n", "g">>, i |-> <<"i">>,
   em |-> <<"e", "m">>, del |-> <<"d", "e", "l">>, s |-> <<"s">>,
   br |-> <<"b", "r">>, p |-> <<"p">>, code |-> <<"c", "o", "d", "e">>,
   pre |-> <<"p", "r", "e">>, div |-> <<"d", "i", "v">>,
   blockquote |-> <<"b", "l", "o", "c", "k", "q", "u", "o", "t", "e">>,
   ul |-> <<"u", "l">>, ol |-> <<"o", "l">>, li |-> <<"l", "i">>,
   img |-> <<"i", "m", "g">>, hr |-> <<"h", "r">>,
   table |-> <<"t", "a", "b", "l", "e">>,
   thead |-> <<"t", "h", "e", "a", "d">>,
   tbody |-> <<"t", "b", "o", "d", "y">>,
   tfoot |-> <<"t", "f", "o", "o", "t">>, tr |-> <<"t", "r">>,
   td |-> <<"t", "d">>, th |-> <<"t", "h">>,
   style |-> <<"s", "t", "y", "l", "e">>,
   script |-> <<"s", "c", "r", "i", "p", "t">>,
   html |-> <<"h", "t", "m", "l">>, head |-> <<"h", "e", "a", "d">>,
   body |-> <<"b", "o", "d", "y">>, test |-> <<"t", "e", "s", "t">>,
   span |-> <<"s", "p", "a", "n">>]

Headings == {<<"h", Digits[k + 1]>> : k \in 1..6}

\* The attribute names the code reads.
Key ==
  [class |-> <<"c", "l", "a", "s", "s">>, href |-> <<"h", "r", "e", "f">>,
   title |-> <<"t", "i", "t", "l", "e">>, src |-> <<"s", "r", "c">>,
   alt |-> <<"a", "l", "t">>]

\* node.PrevSibling of the i-th child of parent.
PrevSibling(parent, i) == IF i = 1 THEN NilNode ELSE parent.Child[i - 1]

\* isChildOf(node, name), given node.Parent.
isChildOf(parent, name) ==
  parent.Type = "Element" /\ ToLower(parent.Data) = name

\* attr(node, key): the value of the first attribute with that key, or "".
attr(node, key) ==
  IF \E k \in 1..Len(node.Attr) : node.Attr[k].Key = key
  THEN node.Attr[CHOOSE k \in 1..Len(node.Attr) :
                   /\ node.Attr[k].Key = key
                   /\ \A m \in 1..(k - 1) : node.Attr[m].Key # key].Val
  ELSE <<>>

hasClass(node, clazz) ==
  \E k \in 1..Len(node.Attr) :
    /\ node.Attr[k].Key = Key.class
    /\ \E m \in 1..Len(Fields(node.Attr[k].Val)) :
         Fields(node.Attr[k].Val)[m] = clazz

LanguagePrefix == <<"l", "a", "n", "g", "u", "a", "g", "e", "-">>

\* langFromClass(node): the suffix of the first language-xxx class of the
\* first child, when that child's Data is "code".
langFromClass(node) ==
  IF node.Child = <<>> \/ ToLower(node.Child[1].Data) # Tag.code THEN <<>>
  ELSE LET classes == Fields(attr(node.Child[1], Key.class))
           hits == {k \in 1..Len(classes) : HasPrefix(classes[k], LanguagePrefix)}
       IN IF hits = {} THEN <<>>
          ELSE LET k == CHOOSE j \in hits : \A m \in hits : j <= m
               IN SubSeq(classes[k], Len(LanguagePrefix) + 1, Len(classes[k]))

\* The element names after which br writes a newline.
BlockTags ==
  {Tag.br, Tag.p, Tag.ul, Tag.ol, Tag.div, Tag.blockquote} \cup Headings

\* br as it would be without the test of option.TrimSpace.
brInspects(prev, option) ==
  IF prev = NilNode THEN <<>>
  ELSE IF prev.Type = "Text"
       THEN (IF Trim(prev.Data, {" ", "\t"}) # <<>>
                /\ ~HasSuffixNL(Trim(prev.Data, {" ", "\t"}))
             THEN <<"\n">> ELSE <<>>)
  ELSE IF prev.Type = "Element" /\ ToLower(prev.Data) \in BlockTags
       THEN <<"\n">>
  ELSE <<>>

\* br(node, w, option), given node.PrevSibling: the bytes written.
br(prev, option) ==
  IF prev = NilNode THEN <<>>
  ELSE IF option.TrimSpace THEN <<"\n">>
  ELSE IF prev.Type = "Text"
       THEN (IF Trim(prev.Data, {" ", "\t"}) # <<>>
                /\ ~HasSuffixNL(Trim(prev.Data, {" ", "\t"}))
             THEN <<"\n">> ELSE <<>>)
  ELSE IF prev.Type = "Element" /\ ToLower(prev.Data) \in BlockTags
       THEN <<"\n">>
  ELSE <<>>

\* pre(node, w, option): the text of the subtree, unchanged.
RECURSIVE pre(_)
pre(node) ==
  IF node.Type = "Text" THEN node.Data
  ELSE Concat([k \in 1..Len(node.Child) |-> pre(node.Child[k])])

\* strings.Replace(s, "\u00a0", " ", -1)
RECURSIVE ReplaceNbsp(_)
ReplaceNbsp(s) ==
  IF s = <<>> THEN s
  ELSE IF Len(s) >= 2 /\ s[1] = "xC2" /\ s[2] = "xA0"
       THEN <<" ">> \o ReplaceNbsp(SubSeq(s, 3, Len(s)))
       ELSE <<s[1]>> \o ReplaceNbsp(Tail(s))

\* bq(node, w, option): the text of the subtree with U+00A0 made a space.
RECURSIVE bq(_)
bq(node) ==
  IF node.Type = "Text" THEN ReplaceNbsp(node.Data)
  ELSE Concat([k \in 1..Len(node.Child) |-> bq(node.Child[k])])

(***************************************************************************)
(* Option, the extension rules and the results of the traversal.           *)
(*                                                                          *)
(* GuessLang is "nil" (no guesser), "ok" (a guesser that answers) or "err" *)
(* (a guesser that fails).  An extension rule is [tag, kind, mark]: its     *)
(* handler writes the byte mark and calls the continuation it was given    *)
(* zero times ("mute"), once between two marks ("wrap") or twice around    *)
(* one mark ("twice").                                                      *)
(*                                                                          *)
(* A traversal returns [w, log, node, panic]: the bytes written to its     *)
(* writer, the elements it dispatched (in order, each with the rule that   *)
(* rendered it), the node as the traversal left it, and whether it ended   *)
(* in a run-time panic.                                                     *)
(***************************************************************************)

\* &Option{}
EmptyOption ==
  [GuessLang |-> "nil", Script |-> FALSE, Style |-> FALSE, TrimSpace |-> FALSE,
   CustomRules |-> <<>>, doNotEscape |-> FALSE, customRulesMap |-> <<>>]

CustomRule(tag, kind, mark) == [tag |-> tag, kind |-> kind, mark |-> mark]

\* option.GuessLang(text)
GuessLang(option, text) ==
  IF option.GuessLang = "ok"
  THEN [lang |-> <<"p", "y">>, err |-> FALSE]
  ELSE [lang |-> <<>>, err |-> TRUE]

\* A map in which the first rule registered for a tag stays.
RECURSIVE makeRulesMapKeepFirst(_, _)
makeRulesMapKeepFirst(rules, m) ==
  IF rules = <<>> THEN m
  ELSE makeRulesMapKeepFirst(Tail(rules),
         [t \in DOMAIN m \cup {Head(rules).tag} |->
            IF t \in DOMAIN m THEN m[t]
            ELSE [kind |-> Head(rules).kind, mark |-> Head(rules).mark]])

\* The map Convert fills from option.CustomRules, in order: a later rule for
\* a tag replaces an earlier one.
RECURSIVE makeRulesMap(_, _)
makeRulesMap(rules, m) ==
  IF rules = <<>> THEN m
  ELSE LET cr == Head(rules)
       IN makeRulesMap(Tail(rules),
            [t \in DOMAIN m \cup {cr.tag} |->
               IF t = cr.tag THEN [kind |-> cr.kind, mark |-> cr.mark]
               ELSE m[t]])

Res(w, log, node, panic) ==
  [w |-> w, log |-> log, node |-> node, panic |-> panic]

\* The writes first, then those of the traversal r, then last unless r
\* panicked.
Wrap(first, r, last) ==
  IF r.panic THEN [r EXCEPT !.w = first \o r.w]
  ELSE [r EXCEPT !.w = first \o r.w \o last]

Event(c, by) == [tag |-> ToLower(c.Data), by |-> by]

\* The entity html.Render writes for a byte of an attribute value.
escapeByte(c) ==
  CASE c = "&" -> <<"&", "a", "m", "p", ";">>
    [] c = "'" -> <<"&", "#", "3", "9", ";">>
    [] c = "<" -> <<"&", "l", "t", ";">>
    [] c = ">" -> <<"&", "g", "t", ";">>
    [] c = "\"" -> <<"&", "#", "3", "4", ";">>
    [] c = "\r" -> <<"&", "#", "1", "3", ";">>
    [] OTHER -> <<c>>

escapeString(s) == Concat([k \in 1..Len(s) |-> escapeByte(s[k])])

\* raw(node, w, option): html.Render of a script or style element: the
\* attribute values are escaped, the children are text written as it is.
raw(node) ==
  <<"<">> \o node.Data
  \o Concat([k \in 1..Len(node.Attr) |->
        <<" ">> \o node.Attr[k].Key \o <<"=", "\"">>
        \o escapeString(node.Attr[k].Val) \o <<"\"">>])
  \o <<">">> \o pre(node) \o <<"<", "/">> \o node.Data \o <<">">>

\* The style and script cases as they would be without the test of the flag.
literalAlways(c, b, enabled) == b \o raw(c) \o <<"\n", "\n">>

\* The style and script cases: what is written for the element c after which
\* br writes b, enabled being option != nil && option.Style (option.Script).
literal(c, b, enabled) ==
  IF enabled THEN b \o raw(c) \o <<"\n", "\n">> ELSE <<>>

\* The number of leading bytes of s that unicode.IsSpace(rune(c)) accepts.
RECURSIVE startOf(_, _)
startOf(s, start) ==
  IF start < Len(s) /\ IsSpaceByte(s[start + 1]) THEN startOf(s, start + 1)
  ELSE start

\* The end of s once its trailing bytes that unicode.IsSpace(rune(c))
\* accepts are left out, never before start.
RECURSIVE stopOf(_, _, _)
stopOf(s, start, stop) ==
  IF stop > start /\ IsSpaceByte(s[stop]) THEN stopOf(s, start, stop - 1)
  ELSE stop

\* aroundNonWhitespace as it would be if content that is only white space
\* were left out instead of written.
hugDropsBlank(s, before, after) ==
  IF TrimSpace(s) = <<>> THEN <<>>
  ELSE SubSeq(s, 1, startOf(s, 0)) \o before
       \o SubSeq(s, startOf(s, 0) + 1, stopOf(s, startOf(s, 0), Len(s)))
       \o after \o SubSeq(s, stopOf(s, startOf(s, 0), Len(s)) + 1, Len(s))

\* The second half of aroundNonWhitespace: what is written for the rendered
\* subtree s and the delimiters before and after.
hug(s, before, after) ==
  IF TrimSpace(s) = <<>> THEN s
  ELSE LET start == startOf(s, 0)
           stop == stopOf(s, start, Len(s))
       IN SubSeq(s, 1, start) \o before \o SubSeq(s, start + 1, stop)
          \o after \o SubSeq(s, stop + 1, Len(s))

\* The text a text node writes.
textOf(node, option) ==
  LET text == CollapseSpace(Trim(node.Data, {"\t", "\r", "\n"}))
  IN IF option.doNotEscape THEN text ELSE Escape(text)

\* The end of a link: ](href) or ](href "title").
linkEnd(c) ==
  IF attr(c, Key.title) # <<>>
  THEN <<"]", "(">> \o attr(c, Key.href) \o <<" ">> \o Quote(attr(c, Key.title))
       \o <<")">>
  ELSE <<"]", "(">> \o attr(c, Key.href) \o <<")">>

\* The img case without its test of src.
imageWithoutSrcTest(c) ==
  FormatNoArgs(<<"!", "[">> \o attr(c, Key.alt) \o <<"]", "(">> \o attr(c, Key.src)
               \o (IF attr(c, Key.title) # <<>>
                   THEN <<" ">> \o Quote(attr(c, Key.title)) ELSE <<>>)
               \o <<")">>)

\* What the img case writes.
image(c) ==
  LET src == attr(c, Key.src)
      alt == attr(c, Key.alt)
      title == attr(c, Key.title)
      full == IF title # <<>>
              THEN <<"!", "[">> \o alt \o <<"]", "(">> \o src \o <<" ">>
                   \o Quote(title) \o <<")">>
              ELSE <<"!", "[">> \o alt \o <<"]", "(">> \o src \o <<")">>
  IN IF src = <<>> THEN <<>> ELSE FormatNoArgs(full)

Fence == <<"x60", "x60", "x60">>

\* The pre case as it would be if the guesser's answer were taken without
\* looking at its error.
preBlockGuessUnchecked(c, option) ==
  Fence
  \o (IF option.GuessLang # "nil" THEN GuessLang(option, pre(c)).lang
      ELSE langFromClass(c))
  \o <<"\n">> \o pre(c)
  \o (IF HasSuffixNL(pre(c)) THEN <<>> ELSE <<"\n">>)
  \o Fence \o <<"\n", "\n">>

\* What the pre case writes after br.
preBlock(c, option) ==
  LET inner == pre(c)
      guess == GuessLang(option, inner)
      lang == IF option.GuessLang # "nil" /\ ~guess.err THEN guess.lang
              ELSE langFromClass(c)
  IN Fence \o lang \o <<"\n">> \o inner
     \o (IF HasSuffixNL(inner) THEN <<>> ELSE <<"\n">>)
     \o Fence \o <<"\n", "\n">>

\* What the blockquote case writes after br for a blockquote of class code.
codeQuote(c, option) ==
  LET buf == bq(c)
      guess == GuessLang(option, buf)
      lang == IF option.GuessLang # "nil" /\ ~guess.err THEN guess.lang
              ELSE <<>>
  IN Fence \o lang \o <<"\n">> \o TrimLeft(buf, {"\n"})
     \o (IF HasSuffixNL(buf) THEN <<>> ELSE <<"\n">>)
     \o Fence \o <<"\n", "\n">>

\* The blockquote case as it would be if the lines were written as they are.
quoteLinesUntrimmed(buf) ==
  LET lines == Split(TrimSpace(buf))
  IN Concat([k \in 1..Len(lines) |->
        <<">", " ">> \o lines[k] \o <<"\n">>]) \o <<"\n">>

\* What the blockquote case writes for the rendered body buf.
quoteLines(buf) ==
  LET lines == Split(TrimSpace(buf))
  IN Concat([k \in 1..Len(lines) |->
        <<">", " ">> \o TrimSpace(lines[k]) \o <<"\n">>]) \o <<"\n">>

\* What the ul/ol case writes for the rendered body buf at depth nest.
RECURSIVE listLines(_, _)
listLines(lines, i) ==
  IF i > Len(lines) THEN <<>>
  ELSE IF TrimSpace(lines[i]) = <<>> THEN listLines(lines, i + 1)
  ELSE (IF i > 1 THEN <<"\n">> ELSE <<>>) \o lines[i]
       \o listLines(lines, i + 1)

listBody(buf, nest) ==
  listLines(Split(buf), 1) \o <<"\n">>
  \o (IF nest = 0 THEN <<"\n">> ELSE <<>>)

\* The unit of indentation as it would be with two spaces.
IndentOfTwo == <<" ", " ">>

Indent == <<" ", " ", " ", " ">>

\* The loop of the li case over the lines of the rendered item: returns the
\* bytes written, the counter n and whether strings.Repeat panicked on a
\* negative count.
RECURSIVE itemLines(_, _, _, _, _, _)
itemLines(lines, i, markPrinted, n, nest, parent) ==
  IF i > Len(lines) THEN [w |-> <<>>, n |-> n, panic |-> FALSE]
  ELSE IF TrimSpace(lines[i]) = <<>>
       THEN itemLines(lines, i + 1, markPrinted, n, nest, parent)
  ELSE LET cont == IF markPrinted THEN <<"\n">> \o Indent ELSE <<>>
           ordered == ~markPrinted /\ ~isChildOf(parent, Tag.ul)
                      /\ isChildOf(parent, Tag.ol)
           n1 == IF ordered THEN n + 1 ELSE n
           mark == IF markPrinted THEN <<>>
                   ELSE IF isChildOf(parent, Tag.ul) THEN <<"*", " ">>
                   ELSE IF ordered THEN Itoa(n1) \o <<".", " ">>
                   ELSE <<>>
           rest == itemLines(lines, i + 1, TRUE, n1, nest, parent)
       IN IF nest - 1 < 0 THEN [w |-> cont, n |-> n, panic |-> TRUE]
          ELSE [w |-> cont \o Repeat(Indent, nest - 1) \o mark \o lines[i]
                      \o rest.w,
                n |-> rest.n, panic |-> rest.panic]

(***************************************************************************)
(* Tables.                                                                  *)
(***************************************************************************)

Sections == {Tag.thead, Tag.tbody, Tag.tfoot}

isSection(n) == n.Type = "Element" /\ ToLower(n.Data) \in Sections

\* The children of a table section that table moves to its new node.
moved(section) ==
  SelectSeq(section.Child, LAMBDA tr : TrimSpace(tr.Data) # <<>>)

\* The list as it would be if the rows of the thead were collected first,
\* then those of the tbody, then those of the tfoot.
tableListHeadFirst(node) ==
  Concat([t \in 1..3 |->
    Concat([k \in 1..Len(node.Child) |->
      IF node.Child[k].Type = "Element"
         /\ ToLower(node.Child[k].Data) = <<Tag.thead, Tag.tbody, Tag.tfoot>>[t]
      THEN moved(node.Child[k]) ELSE <<>>])])

\* The list table collects: the moved children of every section, in order.
tableList(node) ==
  Concat([k \in 1..Len(node.Child) |->
    IF isSection(node.Child[k]) THEN moved(node.Child[k]) ELSE <<>>])

\* The table node once table has run: RemoveChild has taken the collected
\* nodes out of their sections.
tableAfter(node) ==
  [node EXCEPT !.Child = [k \in 1..Len(node.Child) |->
    IF isSection(node.Child[k])
    THEN [node.Child[k] EXCEPT !.Child =
            SelectSeq(node.Child[k].Child, LAMBDA tr : TrimSpace(tr.Data) = <<>>)]
    ELSE node.Child[k]]]

\* maxcol of tableRows.
RECURSIVE maxcolOf(_, _)
maxcolOf(rows, maxcol) ==
  IF rows = <<>> THEN maxcol
  ELSE maxcolOf(Tail(rows),
                IF Len(Head(rows)) > maxcol THEN Len(Head(rows)) ELSE maxcol)

\* widths taken from the first row only.
widthsOfFirstRow(rows, widths) ==
  IF rows = <<>> THEN widths
  ELSE [i \in 1..Len(widths) |->
          IF i <= Len(Head(rows)) THEN StringWidth(Head(rows)[i]) ELSE widths[i]]

\* widths of tableRows: for every column the largest StringWidth of its
\* cells, found by the loop over the rows.
RECURSIVE widthsOf(_, _)
widthsOf(rows, widths) ==
  IF rows = <<>> THEN widths
  ELSE LET cols == Head(rows)
       IN widthsOf(Tail(rows),
            [i \in 1..Len(widths) |->
               IF i <= Len(cols) /\ widths[i] < StringWidth(cols[i])
               THEN StringWidth(cols[i]) ELSE widths[i]])

\* One row as tableRows writes it.
rowLine(cols, widths) ==
  Concat([j \in 1..Len(widths) |->
    <<"|">> \o (IF j <= Len(cols)
                THEN cols[j] \o Repeat(<<" ">>, widths[j] - StringWidth(cols[j]))
                ELSE Repeat(<<" ">>, widths[j]))])
  \o <<"|", "\n">>

\* The row of dashes tableRows writes after the first row.
ruleLine(widths) ==
  Concat([j \in 1..Len(widths) |-> <<"|">> \o Repeat(<<"-">>, widths[j])])
  \o <<"|", "\n">>

\* strings.Repeat panics on a negative count: whether the output loop of
\* tableRows does, for widths as the loops before it left them.
padPanics(rows, widths) ==
  \E i \in 1..Len(rows) : \E j \in 1..Len(rows[i]) :
    j <= Len(widths) /\ widths[j] - StringWidth(rows[i][j]) < 0

tableWidths(rows) == widthsOf(rows, [i \in 1..maxcolOf(rows, 0) |-> 0])

\* The output loop of tableRows.
tableText(rows) ==
  LET widths == tableWidths(rows)
  IN Concat([i \in 1..Len(rows) |->
       rowLine(rows[i], widths) \o (IF i = 1 THEN ruleLine(widths) ELSE <<>>)])

isRow(tr) == tr.Type = "Element" /\ ToLower(tr.Data) = Tag.tr

isCell(td) == td.Type = "Element" /\ ToLower(td.Data) \in {Tag.td, Tag.th}

(***************************************************************************)
(* walk and the rules it dispatches to.                                     *)
(***************************************************************************)

RECURSIVE walk(_, _, _)
RECURSIVE loop(_, _, _, _, _)
RECURSIVE turn(_, _, _, _, _, _)
RECURSIVE visit(_, _, _, _, _)
RECURSIVE builtin(_, _, _, _, _)
RECURSIVE aroundNonWhitespace(_, _, _, _, _)
RECURSIVE customWalk(_, _, _, _)
RECURSIVE cells(_, _, _, _)
RECURSIVE tableRows(_, _, _, _)
RECURSIVE table(_, _)

\* The traversal r, with the events ev logged before its own.
Tagged(ev, r) == [r EXCEPT !.log = ev \o r.log]

\* A handler that calls its continuation a second time, on the node as the
\* first call (once) left it, after writing the mark m.
secondCall(once, m, nest, option) ==
  IF once.panic THEN once
  ELSE Tagged(once.log, Wrap(once.w \o m, walk(once.node, nest, option), <<>>))

\* The handler of an extension rule, with walk as its continuation.
customWalk(h, c, nest, option) ==
  CASE h.kind = "mute" -> Res(<<h.mark>>, <<Event(c, h.mark)>>, c, FALSE)
    [] h.kind = "wrap" ->
         Tagged(<<Event(c, h.mark)>>,
                Wrap(<<h.mark>>, walk(c, nest, option), <<h.mark>>))
    [] h.kind = "twice" ->
         Tagged(<<Event(c, h.mark)>>,
                secondCall(walk(c, nest, option), <<h.mark>>, nest, option))

\* The traversal r of aroundNonWhitespace's buffer, written around the
\* delimiters.
hugged(r, before, after) ==
  IF r.panic THEN [r EXCEPT !.w = <<>>]
  ELSE [r EXCEPT !.w = hug(r.w, before, after)]

\* aroundNonWhitespace as it would be if it rendered the subtree once to
\* see whether anything is written and once more to write it.
aroundNonWhitespaceAgain(c, nest, option, before, after) ==
  Tagged(walk(c, nest, option).log,
         hugged(walk(c, nest, option), before, after))

aroundNonWhitespace(c, nest, option, before, after) ==
  hugged(walk(c, nest, option), before, after)

\* rows = append(rows, ...) and cols = append(cols, ...) of tableRows: the
\* loop ends at a panic.
NoRows == [list |-> <<>>, log |-> <<>>, panic |-> FALSE]

addCell(acc, r) ==
  IF acc.panic THEN acc
  ELSE [list |-> IF r.panic THEN acc.list ELSE Append(acc.list, r.w),
        log |-> acc.log \o r.log, panic |-> r.panic]

addRow(acc, r) ==
  IF acc.panic THEN acc
  ELSE [list |-> IF r.panic THEN acc.list ELSE Append(acc.list, r.list),
        log |-> acc.log \o r.log, panic |-> r.panic]

\* The cells of one row, from the k-th child of tr on: the rendered td and
\* th children, the log of their traversals, and whether one panicked.
cells(tr, k, option, acc) ==
  IF k > Len(tr.Child) THEN acc
  ELSE IF ~isCell(tr.Child[k]) THEN cells(tr, k + 1, option, acc)
  ELSE cells(tr, k + 1, option, addCell(acc, walk(tr.Child[k], 0, option)))

\* The first loop of tableRows, from the k-th child of node on: the rows.
tableRows(node, k, option, acc) ==
  IF k > Len(node.Child) THEN acc
  ELSE IF ~isRow(node.Child[k]) THEN tableRows(node, k + 1, option, acc)
  ELSE tableRows(node, k + 1, option,
                 addRow(acc, cells(node.Child[k], 1, option, NoRows)))

\* The rest of tableRows, for the rows r its first loop collected from the
\* table node.
tabled(node, r) ==
  IF r.panic \/ padPanics(r.list, tableWidths(r.list))
  THEN Res(<<>>, r.log, tableAfter(node), TRUE)
  ELSE Res(tableText(r.list) \o <<"\n">>, r.log, tableAfter(node), FALSE)

table(node, option) ==
  tabled(node,
         tableRows([NilNode EXCEPT !.Child = tableList(node)], 1, option, NoRows))

\* A result r of a rule, with the counter n of the loop of walk.
Keep(r, n) ==
  [w |-> r.w, log |-> r.log, node |-> r.node, panic |-> r.panic, n |-> n]

\* The tags the switch of walk has a case for.
BuiltinTags ==
  {Tag.a, Tag.b, Tag.strong, Tag.i, Tag.em, Tag.del, Tag.s, Tag.br, Tag.p, Tag.code,
   Tag.pre, Tag.div, Tag.blockquote, Tag.ul, Tag.ol, Tag.li, Tag.img, Tag.hr, Tag.table,
   Tag.style, Tag.script} \cup Headings

\* A lookup that the cases of the switch come before.
hasRuleUnlessBuiltin(option, tag) ==
  tag \in DOMAIN option.customRulesMap /\ tag \notin BuiltinTags

\* customWalk, ok := option.customRulesMap[strings.ToLower(c.Data)]
hasRule(option, tag) == tag \in DOMAIN option.customRulesMap

\* The handler, then the switch as well, as without the break.
extensionFallsThrough(node, i, n, nest, option) ==
  [builtin(node, i, n, nest, option) EXCEPT
     !.w = customWalk(option.customRulesMap[ToLower(node.Child[i].Data)],
                      node.Child[i], nest, option).w \o @,
     !.log = customWalk(option.customRulesMap[ToLower(node.Child[i].Data)],
                        node.Child[i], nest, option).log \o @]

\* if ok { customWalk(c, w, nest, option); break }
extension(node, i, n, nest, option) ==
  Keep(customWalk(option.customRulesMap[ToLower(node.Child[i].Data)],
                  node.Child[i], nest, option), n)

\* The result of a case of the switch for the element c.
Built(c, n, r) ==
  [w |-> r.w, log |-> <<Event(c, "builtin")>> \o r.log, node |-> r.node,
   panic |-> r.panic, n |-> n]

\* A case that writes w and does not descend.
Just(c, n, w) == Built(c, n, Res(w, <<>>, c, FALSE))

\* The blockquote case for the traversal r of its buffer.
quoted(b, r) ==
  IF r.panic THEN [r EXCEPT !.w = b] ELSE [r EXCEPT !.w = b \o quoteLines(r.w)]

\* The ul/ol case for the traversal r of its buffer.
listed(b, nest, r) ==
  IF r.panic THEN [r EXCEPT !.w = b]
  ELSE [r EXCEPT !.w = b \o listBody(r.w, nest)]

\* The li case for the item lines l of the traversal r of its buffer.
numbered(c, b, r, l) ==
  Keep(Tagged(<<Event(c, "builtin")>>,
              [r EXCEPT !.w = b \o l.w \o (IF l.panic THEN <<>> ELSE <<"\n">>),
                        !.panic = l.panic]),
       l.n)

item(node, c, b, n, nest, r) ==
  IF r.panic THEN Built(c, n, [r EXCEPT !.w = b])
  ELSE numbered(c, b, r, itemLines(Split(r.w), 1, FALSE, n, nest, node))

\* The level of a heading tag h1..h6.
level(tag) == CHOOSE k \in 1..6 : Digits[k + 1] = tag[2]

\* The switch of walk on the lower-cased tag of the child c of node; b is
\* what br(c, w, option) writes.
switch(node, c, tag, b, n, nest, option) ==
  CASE tag = Tag.a ->
         Built(c, n, aroundNonWhitespace(c, nest, option, <<"[">>, linkEnd(c)))
    [] tag \in {Tag.b, Tag.strong} ->
         Built(c, n, aroundNonWhitespace(c, nest, option, <<"*", "*">>, <<"*", "*">>))
    [] tag \in {Tag.i, Tag.em} ->
         Built(c, n, aroundNonWhitespace(c, nest, option, <<"_">>, <<"_">>))
    [] tag \in {Tag.del, Tag.s} ->
         Built(c, n, aroundNonWhitespace(c, nest, option, <<"~", "~">>, <<"~", "~">>))
    [] tag = Tag.br -> Just(c, n, b \o <<"\n", "\n">>)
    [] tag = Tag.p ->
         Built(c, n, Wrap(b, walk(c, nest, option), b \o <<"\n", "\n">>))
    [] tag = Tag.code ->
         Just(c, n, IF isChildOf(node, Tag.pre) THEN <<>>
                    ELSE <<"x60">> \o pre(c) \o <<"x60">>)
    [] tag = Tag.pre -> Just(c, n, b \o preBlock(c, option))
    [] tag = Tag.div -> Built(c, n, Wrap(b, walk(c, nest, option), <<"\n">>))
    [] tag = Tag.blockquote ->
         IF hasClass(c, Tag.code) THEN Just(c, n, b \o codeQuote(c, option))
         ELSE Built(c, n, quoted(b, walk(c, nest + 1, option)))
    [] tag \in {Tag.ul, Tag.ol} ->
         Built(c, n, listed(b, nest,
                 walk(c, nest + 1, [option EXCEPT !.TrimSpace = TRUE])))
    [] tag = Tag.li -> item(node, c, b, n, nest, walk(c, 0, option))
    [] tag \in Headings ->
         Built(c, n, Wrap(b \o Repeat(<<"#">>, level(tag)) \o <<" ">>,
                          walk(c, nest, option), <<"\n", "\n">>))
    [] tag = Tag.img -> Just(c, n, image(c))
    [] tag = Tag.hr -> Just(c, n, b \o <<"\n", "-", "-", "-", "\n", "\n">>)
    [] tag = Tag.table -> Built(c, n, Wrap(b, table(c, option), <<>>))
    [] tag = Tag.style ->
         Just(c, n, literal(c, b, option.Style))
    [] tag = Tag.script ->
         Just(c, n, literal(c, b, option.Script))
    [] OTHER ->
         Keep(Tagged(<<Event(c, "default")>>, walk(c, nest, option)), n)

\* switch strings.ToLower(c.Data) for the i-th child c of node.
builtin(node, i, n, nest, option) ==
  switch(node, node.Child[i], ToLower(node.Child[i].Data),
         br(PrevSibling(node, i), option), n, nest, option)

\* One turn of the loop of walk: the i-th child c of node, with the counter
\* n of numbered items so far.  The result also holds the counter.
visit(node, i, n, nest, option) ==
  CASE node.Child[i].Type = "Comment" ->
         Keep(Res(<<"<", "!", "-", "-">> \o node.Child[i].Data
                  \o <<"-", "-", ">", "\n">>, <<>>, node.Child[i], FALSE), n)
    [] node.Child[i].Type \notin {"Comment", "Element"} ->
         Keep(walk(node.Child[i], nest, option), n)
    [] node.Child[i].Type = "Element"
       /\ hasRule(option, ToLower(node.Child[i].Data)) ->
         extension(node, i, n, nest, option)
    [] OTHER -> builtin(node, i, n, nest, option)

\* The state of the loop of walk before its first turn: nothing written, no
\* child visited, n := 0.
Start == [w |-> <<>>, log |-> <<>>, kids |-> <<>>, panic |-> FALSE, n |-> 0]

\* The state of the loop after the turn v for the i-th child.
turned(acc, v) ==
  [w |-> acc.w \o v.w, log |-> acc.log \o v.log,
   kids |-> Append(acc.kids, v.node), panic |-> v.panic, n |-> v.n]

\* The loop of walk after the turn v for the i-th child of node: a panic
\* ends it, and the remaining children are left as they are.
turn(acc, node, i, nest, option, v) ==
  IF v.panic
  THEN [turned(acc, v) EXCEPT
          !.kids = @ \o SubSeq(node.Child, i + 1, Len(node.Child))]
  ELSE loop(node, i + 1, nest, option, turned(acc, v))

\* The loop of walk over the children of node, from the i-th on.
loop(node, i, nest, option, acc) ==
  IF i > Len(node.Child) THEN acc
  ELSE turn(acc, node, i, nest, option, visit(node, i, acc.n, nest, option))

\* What walk leaves: the text of a text node, then the loop's result r.
walked(node, text, r) ==
  [w |-> text \o r.w, log |-> r.log, node |-> [node EXCEPT !.Child = r.kids],
   panic |-> r.panic]

\* walk(node, w, nest, option)
walk(node, nest, option) ==
  IF node.Type = "Text" /\ option.TrimSpace /\ TrimSpace(node.Data) = <<>>
  THEN Res(<<>>, <<>>, node, FALSE)
  ELSE walked(node,
              IF node.Type = "Text" THEN textOf(node, option) ELSE <<>>,
              loop(node, 1, nest, option, Start))

(***************************************************************************)
(* Convert.                                                                 *)
(*                                                                          *)
(* src is the reader handed to Convert: the tree html.Parse builds from    *)
(* its bytes, or a reader that fails.  option is the *Option of the caller *)
(* (<<>> is nil), opt the Option that Convert's local pointer refers to,   *)
(* doc the parsed tree (<<>> before html.Parse has returned one), out the  *)
(* bytes written to w so far, log the elements walk has dispatched, err    *)
(* what Convert returned.  A caller may convert the same bytes a second    *)
(* time with the same *Option and a new sink: run counts the calls and     *)
(* prior holds what the call before wrote.  calls holds the calls of        *)
(* Convert that goroutines of the caller run at the same time (none:        *)
(* <<>>).                                                                   *)
(***************************************************************************)

VARIABLES src, option, opt, doc, out, log, pc, err, run, prior, calls

vars == <<src, option, opt, doc, out, log, pc, err, run, prior, calls>>

\* doc, err := html.Parse(r), without an error.
Parse ==
  /\ pc = "call"
  /\ ~src.fail
  /\ doc' = <<src.tree>>
  /\ pc' = "parsed"
  /\ UNCHANGED <<src, option, opt, out, log, err, run, prior, calls>>

\* Convert as it would be if the newline were written before the error is
\* looked at.
ParseErrorAfterNewline ==
  /\ pc = "call"
  /\ src.fail
  /\ out' = out \o <<"\n">>
  /\ err' = "unexpected EOF"
  /\ pc' = "returned"
  /\ UNCHANGED <<src, option, opt, doc, log, run, prior, calls>>

\* html.Parse returns the reader's error and Convert returns it.
ParseError ==
  /\ pc = "call"
  /\ src.fail
  /\ err' = "unexpected EOF"
  /\ pc' = "returned"
  /\ UNCHANGED <<src, option, opt, doc, out, log, run, prior, calls>>

\* Convert as it would be if filling the map used up the list of rules.
RulesDrainList ==
  /\ pc = "parsed"
  /\ LET o == IF option = <<>> THEN EmptyOption ELSE option[1]
         filled == [o EXCEPT !.customRulesMap = makeRulesMap(o.CustomRules, <<>>)]
     IN /\ opt' = filled
        /\ option' = IF option = <<>> THEN <<>>
                     ELSE <<[filled EXCEPT !.CustomRules = <<>>]>>
  /\ pc' = "rules"
  /\ UNCHANGED <<src, doc, out, log, err, run, prior, calls>>

\* A nil option becomes &Option{}; customRulesMap is made and filled.
Rules ==
  /\ pc = "parsed"
  /\ LET o == IF option = <<>> THEN EmptyOption ELSE option[1]
         filled == [o EXCEPT !.customRulesMap = makeRulesMap(o.CustomRules, <<>>)]
     IN /\ opt' = filled
        /\ option' = IF option = <<>> THEN <<>> ELSE <<filled>>
  /\ pc' = "rules"
  /\ UNCHANGED <<src, doc, out, log, err, run, prior, calls>>

\* walk(doc, w, 0, option)
Walk ==
  /\ pc = "rules"
  /\ \E r \in {walk(doc[1], 0, opt)} :
       /\ out' = out \o r.w
       /\ log' = r.log
       /\ doc' = <<r.node>>
       /\ pc' = IF r.panic THEN "panic" ELSE "walked"
  /\ UNCHANGED <<src, option, opt, err, run, prior, calls>>

\* Convert as it would be if the newline were written only when the
\* traversal's output does not end in one.
NewlineIfMissing ==
  /\ pc = "walked"
  /\ out' = IF HasSuffixNL(out) THEN out ELSE out \o <<"\n">>
  /\ err' = "nil"
  /\ pc' = "returned"
  /\ UNCHANGED <<src, option, opt, doc, log, run, prior, calls>>

\* fmt.Fprint(w, "\n"); return nil
Newline ==
  /\ pc = "walked"
  /\ out' = out \o <<"\n">>
  /\ err' = "nil"
  /\ pc' = "returned"
  /\ UNCHANGED <<src, option, opt, doc, log, run, prior, calls>>

\* The caller calls Convert again: the same bytes, the *Option as the call
\* before left it, an empty sink.
Reuse ==
  /\ pc = "returned"
  /\ err = "nil"
  /\ run = 1
  /\ run' = 2
  /\ prior' = out
  /\ out' = <<>>
  /\ log' = <<>>
  /\ doc' = <<>>
  /\ err' = "none"
  /\ pc' = "call"
  /\ UNCHANGED <<src, option, opt, calls>>

Next == Parse \/ ParseError \/ Rules \/ Walk \/ Newline \/ Reuse

\* The state in which Convert is called with the reader s and the option o.
Call(s, o) ==
  /\ src = s
  /\ option = o
  /\ opt = EmptyOption
  /\ doc = <<>>
  /\ out = <<>>
  /\ log = <<>>
  /\ pc = "call"
  /\ err = "none"
  /\ run = 1
  /\ prior = <<>>
  /\ calls = <<>>

(***************************************************************************)
(* The inputs.  html.Parse always builds html, head and body elements      *)
(* around the content, and never two text nodes in a row.                   *)
(***************************************************************************)

Page(kids) ==
  Document(<<Elem(Tag.html, <<>>,
               <<Elem(Tag.head, <<>>, <<>>), Elem(Tag.body, <<>>, kids)>>)>>)

Reader(tree) == [tree |-> tree, fail |-> FALSE]

\* A reader whose Read returns an error (errReader of the tests).
errReader == [tree |-> NilNode, fail |-> TRUE]

\* Bounds of the inputs: children of an inline element, extension rules of
\* an option, items of a list, cells of a table row.
MaxKids == 2
MaxRules == 2
MaxItems == 3
MaxCols == 2
MaxGap == 3

\* The sequences of at most n elements of S.
SeqsUpTo(S, n) == UNION {[1..k -> S] : k \in 0..n}

\* No two text nodes in a row.
Parsed(kids) ==
  \A k \in 1..(Len(kids) - 1) :
    ~(kids[k].Type = "Text" /\ kids[k + 1].Type = "Text")

\* Inline content: text with leading and trailing spaces, blank text, text
\* that ends in a two-byte character (a with grave, xC3 xA0), text that
\* starts with U+00A0, a line break, an image, an empty block, emphasis.
TextData ==
  {<<" ", "a", " ", "b", " ">>, <<" ", " ">>, <<"a">>, <<"v", "xC3", "xA0">>,
   <<"xC2", "xA0", "a">>}

Br == Elem(Tag.br, <<>>, <<>>)

Img(from, alt) == Elem(Tag.img, <<Att(Key.src, from), Att(Key.alt, alt)>>, <<>>)

InlineAtoms ==
  {Text(t) : t \in TextData}
  \cup {Br, Img(<<"s">>, <<"f">>), Elem(Tag.div, <<>>, <<>>),
        Elem(Tag.em, <<>>, <<Text(<<" ", "a", " ">>)>>)}

InlineKids == {kids \in SeqsUpTo(InlineAtoms, MaxKids) : Parsed(kids)}

EmphasisTags == {Tag.b, Tag.strong, Tag.i, Tag.em, Tag.del, Tag.s}

Href == <<Att(Key.href, <<"u">>)>>

HrefTitle == <<Att(Key.href, <<"u">>), Att(Key.title, <<"t", "\"">>)>>

\* The emphasis and link elements of the inline documents.
Spans ==
  {Elem(tag, <<>>, kids) : tag \in EmphasisTags, kids \in InlineKids}
  \cup {Elem(Tag.a, at, kids) : at \in {Href, HrefTitle}, kids \in InlineKids}

Hello == Text(<<"H", "i">>)

InlineDocs ==
  {Page(<<e>>) : e \in Spans}
  \cup {Page(<<Hello, e, Text(<<"h">>)>>) :
          e \in {x \in Spans : x.Data \in {Tag.strong, Tag.a}}}

\* Extension rules: every rule has a mark of its own.
RuleSet ==
  {CustomRule(Tag.test, "wrap", "_"), CustomRule(Tag.test, "mute", "X"),
   CustomRule(Tag.test, "twice", "^"), CustomRule(Tag.div, "wrap", "="),
   CustomRule(Tag.div, "mute", "D")}

RuleLists == SeqsUpTo(RuleSet, MaxRules)

WithRules(rules) == <<[EmptyOption EXCEPT !.CustomRules = rules]>>

Cell(tag, kids) == Elem(tag, <<>>, kids)

Table(rows) == Elem(Tag.table, <<>>, <<Elem(Tag.tbody, <<>>, rows)>>)

X == Text(<<"x">>)

RuleDocs ==
  {Page(<<Elem(Tag.test, <<>>, <<X>>)>>),
   Page(<<Elem(Tag.div, <<>>, <<X>>)>>),
   Page(<<Elem(Tag.div, <<>>, <<X>>), Elem(Tag.div, <<>>, <<Text(<<"y">>)>>)>>),
   Page(<<Elem(Tag.test, <<>>, <<Elem(Tag.div, <<>>, <<X>>)>>)>>),
   Page(<<Elem(Tag.div, <<>>, <<Elem(Tag.test, <<>>, <<X>>), Text(<<"y">>)>>)>>),
   Page(<<Elem(Tag.span, <<>>, <<X>>)>>),
   Page(<<Elem(Tag.test, <<>>, <<Elem(Tag.span, <<>>, <<X>>)>>)>>),
   Page(<<Elem(Tag.test, <<>>,
            <<Table(<<Elem(Tag.tr, <<>>, <<Cell(Tag.td, <<X>>)>>)>>)>>)>>)}

\* Lists: items that hold text, nothing, blank text, or text and a list.
Li(kids) == Elem(Tag.li, <<>>, kids)

ItemSet ==
  {Li(<<Text(<<"a">>)>>), Li(<<>>), Li(<<Text(<<" ">>)>>),
   Li(<<Text(<<"a">>), Elem(Tag.ol, <<>>, <<Li(<<Text(<<"b">>)>>), Li(<<Text(<<"c">>)>>)>>)>>)}

ItemLists == SeqsUpTo(ItemSet, MaxItems) \ {<<>>}

ListDocs ==
  {Page(<<Elem(Tag.ol, <<>>, items)>>) : items \in ItemLists}
  \cup {Page(<<Elem(Tag.ul, <<>>, items)>>) : items \in SeqsUpTo(ItemSet, 1)}

\* Tables of two rows: cells that hold a letter, a wide character (xE3 x81
\* x82, two columns wide), two letters, or nothing.
CellKids == {<<Text(<<"a">>)>>, <<Text(<<"xE3", "x81", "x82">>)>>, <<>>}

Rows(tag) ==
  {Elem(Tag.tr, <<>>, [k \in 1..Len(r) |-> Cell(tag, r[k])]) :
     r \in SeqsUpTo(CellKids, MaxCols)}

TableDocs ==
  {Page(<<Table(<<first, second>>)>>) :
     first \in Rows(Tag.th) \cup Rows(Tag.td), second \in Rows(Tag.td)}

\* Images: src, alt and title absent, empty or set; a src with a percent
\* sign.
ImgAttrs ==
  {from \o alt \o title :
     from \in {<<>>, <<Att(Key.src, <<>>)>>, <<Att(Key.src, <<"s">>)>>,
               <<Att(Key.src, <<"u", "%", "2", "0", "b">>)>>},
     alt \in {<<>>, <<Att(Key.alt, <<"f", " ", "b">>)>>},
     title \in {<<>>, <<Att(Key.title, <<"t">>)>>}}

ImgDocs ==
  {Page(<<Elem(Tag.img, at, <<>>)>>) : at \in ImgAttrs}
  \cup {Page(<<Elem(Tag.p, <<>>, <<X, Elem(Tag.img, at, <<>>), Elem(Tag.b, <<>>, <<X>>)>>)>>) :
          at \in ImgAttrs}

\* Code blocks: a pre whose first child is a code element with several
\* classes, with no language class, with no class; a pre that holds text
\* only; a pre whose code element follows a space; a blockquote of class
\* code.  The option is nil, or has no guesser, a guesser that answers or a
\* guesser that fails.
Go == <<"g", "o">>

ClassSet ==
  {<<"f", " ">> \o LanguagePrefix \o Go,
   LanguagePrefix \o Go \o <<" ">> \o LanguagePrefix \o <<"c">>,
   <<"f">>}

Code(attrs) == Elem(Tag.code, attrs, <<X>>)

PreKids ==
  {<<Code(<<Att(Key.class, cls)>>)>> : cls \in ClassSet}
  \cup {<<Text(<<" ">>), Code(<<Att(Key.class, cls)>>)>> : cls \in ClassSet}
  \cup {<<Code(<<>>)>>, <<X>>, <<Text(<<"x", "\n">>)>>}

ClassCode == <<Att(Key.class, <<"f", " ", "c", "o", "d", "e">>)>>

CodeDocs ==
  {Page(<<Elem(Tag.pre, <<>>, kids)>>) : kids \in PreKids}
  \cup {Page(<<Elem(Tag.blockquote, ClassCode, kids)>>) :
          kids \in {<<Text(<<"\n", "x">>)>>,
                    <<Elem(Tag.b, <<>>, <<X>>), Text(<<"xC2", "xA0", "y", "\n">>)>>,
                    <<Code(<<Att(Key.class, LanguagePrefix \o Go)>>)>>}}

WithGuess(g) == <<[EmptyOption EXCEPT !.GuessLang = g]>>

GuessOptions == {<<>>} \cup {WithGuess(g) : g \in {"nil", "ok", "err"}}

\* A script and a style element, with attributes and with text that holds
\* the bytes Markdown and HTML give a meaning to; alone, after a word and
\* before a word.  The option is nil or has each of the two flags set or not.
ScriptSet ==
  {Elem(Tag.script, <<Att(Key.src, <<"a", "&", "b">>)>>, <<>>),
   Elem(Tag.script, <<Att(Key.class, <<"j">>)>>,
        <<Text(<<"<", "!", "-", "-", "\n", "1", "<", "2", "*", "&", "\n", "-", "-", ">">>)>>),
   Elem(Tag.style, <<>>, <<Text(<<"b", " ", "{", "_", "}", "\n">>)>>)}

ScriptDocs ==
  {Page(<<e>>) : e \in ScriptSet}
  \cup {Page(<<Text(<<"a">>), e>>) : e \in ScriptSet}
  \cup {Page(<<e, Text(<<"a">>)>>) : e \in ScriptSet}

WithFlags(script, style) ==
  <<[EmptyOption EXCEPT !.Script = script, !.Style = style]>>

FlagOptions ==
  {<<>>} \cup {WithFlags(script, style) : script \in BOOLEAN, style \in BOOLEAN}

\* Elements out of their place: an li that is in no list, alone, empty and
\* inside a div; a table row and a table cell inside an svg element, where
\* the parser leaves them.
Svg(kids) == Elem(<<"s", "v", "g">>, <<>>, kids)

StrayDocs ==
  {Page(<<Li(<<Text(<<"a">>)>>)>>), Page(<<Li(<<>>)>>),
   Page(<<Elem(Tag.div, <<>>, <<Li(<<Text(<<"a">>)>>)>>)>>),
   Page(<<Svg(<<Elem(Tag.tr, <<>>, <<Cell(Tag.td, <<X>>)>>)>>)>>),
   Page(<<Svg(<<Cell(Tag.td, <<X>>)>>)>>),
   Page(<<Svg(<<Cell(Tag.th, <<X>>)>>), Text(<<"a">>)>>)}

\* Texts without white space: a letter, one of the bytes escapeRegex
\* matches or one it does not match, and a letter; and pairs of bytes it
\* matches.  Each is met in the body, in a b element, in a pre, in a code
\* element, in a code element of a pre and in a blockquote of class code.
PlainChars == {".", "&", "~", "=", "|", "{", "\"", "/", "%"}

EscapeTexts ==
  {<<"a", c, "b">> : c \in EscapeChars \cup PlainChars}
  \cup {<<c, c>> : c \in {"\\", "*", "_"}}
  \cup {<<"\\", "*">>, <<"1", ".", "-">>}

Places == {"body", "b", "pre", "code", "precode", "bqcode"}

Placed(place, t) ==
  CASE place = "body" -> Text(t)
    [] place = "b" -> Elem(Tag.b, <<>>, <<Text(t)>>)
    [] place = "pre" -> Elem(Tag.pre, <<>>, <<Text(t)>>)
    [] place = "code" -> Elem(Tag.code, <<>>, <<Text(t)>>)
    [] place = "precode" ->
         Elem(Tag.pre, <<>>, <<Elem(Tag.code, <<>>, <<Text(t)>>)>>)
    [] place = "bqcode" -> Elem(Tag.blockquote, ClassCode, <<Text(t)>>)

EscapeDocs == {Page(<<Placed(place, t)>>) : place \in Places, t \in EscapeTexts}

\* Two words with a run of spaces, tabs and newlines between them, in the
\* body and in a b element.
Gaps == SeqsUpTo({" ", "\t", "\n"}, MaxGap) \ {<<>>}

GapTexts == {<<"a">> \o gap \o <<"b">> : gap \in Gaps}

GapDocs == {Page(<<Placed(place, t)>>) : place \in {"body", "b"}, t \in GapTexts}

\* Block elements with nothing before them and after a text, a text that
\* ends in a newline, a blank text, an inline element, an image and a
\* block element; a list item that holds an inline and a block element.
\* The option has TrimSpace set.
TrimDocs ==
  {Page(before \o <<e>>) :
     before \in {<<>>, <<Text(<<"a">>)>>, <<Text(<<"a", "\n">>)>>, <<Text(<<" ">>)>>,
                 <<Elem(Tag.b, <<>>, <<X>>)>>, <<Img(<<"s">>, <<"f">>)>>,
                 <<Elem(Tag.p, <<>>, <<X>>)>>},
     e \in {Elem(Tag.div, <<>>, <<X>>), Elem(Tag.p, <<>>, <<X>>),
            Elem(<<"h", "2">>, <<>>, <<X>>), Elem(Tag.hr, <<>>, <<>>), Br,
            Elem(Tag.pre, <<>>, <<X>>)}}
  \cup {Page(<<Elem(Tag.ul, <<>>,
                 <<Li(<<Elem(Tag.b, <<>>, <<X>>), Elem(Tag.div, <<>>, <<X>>)>>)>>)>>)}

WithTrim == <<[EmptyOption EXCEPT !.TrimSpace = TRUE]>>

\* Tables whose first row holds one cell with a line break, a paragraph or
\* a vertical bar, and whose second row holds two cells.
CellDocs ==
  {Page(<<Table(<<Elem(Tag.tr, <<>>, <<Cell(tag, kids)>>),
                  Elem(Tag.tr, <<>>, <<Cell(Tag.td, <<X>>), Cell(Tag.td, <<X>>)>>)>>)>>) :
     tag \in {Tag.th, Tag.td},
     kids \in {<<Text(<<"a">>), Br, Text(<<"b">>)>>, <<Elem(Tag.p, <<>>, <<X>>)>>,
               <<Text(<<"a", "|", "b">>)>>}}

\* Blockquotes: of a word, of words with white space around them, of two
\* words and a line break, of a paragraph, of nothing, of a blockquote of a
\* blockquote, of a blockquote between two words, of a list and a word, of
\* a list item, of a list in a list.
Quote1(kids) == Elem(Tag.blockquote, <<>>, kids)

QuoteDocs ==
  {Page(<<Quote1(kids)>>) :
     kids \in {<<X>>, <<Text(<<" ", "a", " ", "\n", " ", "b", " ">>)>>, <<X, Br, X>>,
               <<Elem(Tag.p, <<>>, <<X>>)>>, <<>>,
               <<Quote1(<<X>>)>>, <<Quote1(<<Quote1(<<X>>)>>)>>,
               <<Text(<<"a">>), Quote1(<<Text(<<"b">>)>>), Text(<<"c">>)>>,
               <<Elem(Tag.ul, <<>>, <<Li(<<Text(<<"a">>)>>)>>), Text(<<"b">>)>>,
               <<Li(<<Text(<<"a">>)>>)>>,
               <<Elem(Tag.ul, <<>>,
                   <<Li(<<Text(<<"a">>),
                          Elem(Tag.ul, <<>>, <<Li(<<Text(<<"b">>)>>)>>)>>)>>)>>}}

\* Lists three levels deep, every level a ul or an ol; the list of the
\* second level has two items.
NestDocs ==
  {Page(<<Elem(t[1], <<>>,
            <<Li(<<Text(<<"a">>),
                   Elem(t[2], <<>>,
                     <<Li(<<Text(<<"b">>),
                            Elem(t[3], <<>>, <<Li(<<Text(<<"c">>)>>)>>)>>),
                       Li(<<Text(<<"d">>)>>)>>)>>),
              Li(<<Text(<<"e">>)>>)>>)>>) :
     t \in [1..3 -> {Tag.ul, Tag.ol}]}

\* Tables of a thead, a tbody and a tfoot in every order, each with one row
\* of one cell, the cells holding a, b and c in the order of the document;
\* a list whose item holds a word, a link of an emphasis, and a word; and
\* a blockquote of a word, an unknown element of a word and an emphasis,
\* and a word.
OrderDocs ==
  {Page(<<Elem(Tag.table, <<>>,
            [k \in 1..3 |->
               Elem(sec[k], <<>>,
                 <<Elem(Tag.tr, <<>>,
                     <<Cell(IF sec[k] = Tag.thead THEN Tag.th ELSE Tag.td,
                            <<Text(<<<<"a", "b", "c">>[k]>>)>>)>>)>>)])>>) :
     sec \in {f \in [1..3 -> Sections] : \A t \in Sections : \E k \in 1..3 : f[k] = t}}
  \cup {Page(<<Elem(Tag.ul, <<>>,
                  <<Li(<<Text(<<"a">>),
                         Elem(Tag.a, HrefTitle,
                           <<Elem(Tag.em, <<>>, <<Text(<<"b">>)>>)>>),
                         Text(<<"c">>)>>),
                    Li(<<Text(<<"d">>)>>)>>),
                Text(<<"e">>)>>),
          Page(<<Quote1(<<Text(<<"a">>),
                          Elem(Tag.span, <<>>,
                            <<Text(<<"b">>),
                              Elem(Tag.em, <<>>, <<Text(<<"c">>)>>)>>),
                          Text(<<"d">>)>>),
                 Text(<<"x">>)>>)}

\* The calls of Convert: a document and an option, or a failing reader.
Calls ==
  {<<Reader(d), <<>>>> : d \in InlineDocs \cup ListDocs \cup TableDocs \cup ImgDocs}
  \cup {<<Reader(d), <<>>>> : d \in StrayDocs \cup EscapeDocs \cup GapDocs}
  \cup {<<Reader(d), <<>>>> : d \in CellDocs \cup QuoteDocs \cup NestDocs}
  \cup {<<Reader(d), <<>>>> : d \in OrderDocs}
  \cup {<<Reader(d), WithRules(rules)>> : d \in RuleDocs, rules \in RuleLists}
  \cup {<<Reader(d), o>> : d \in CodeDocs, o \in GuessOptions}
  \cup {<<Reader(d), o>> : d \in ScriptDocs, o \in FlagOptions}
  \cup {<<Reader(d), o>> : d \in TrimDocs, o \in {<<>>, WithTrim}}
  \cup {<<errReader, o>> : o \in {<<>>} \cup {WithRules(rules) : rules \in RuleLists}}

Init == \E c \in Calls : Call(c[1], c[2])

Spec == Init /\ [][Next]_vars

\* A call of Convert that has not yet returned or panicked.
Running == pc \in {"call", "parsed", "rules", "walked"}

\* A running call takes its next step: the steps of Next that move pc from a
\* position of Running are those of Parse, ParseError, Rules, Walk and
\* Newline, whose guards are that position alone.
Advance ==
  /\ Running
  /\ pc' \in {"parsed", "rules", "walked", "returned", "panic"} \ {pc}

\* Convert is straight-line code: once it is called, each of its steps is
\* taken.  Whether the caller calls it a second time is up to the caller.
Live == Spec /\ WF_pc(Advance)

(***************************************************************************)
(* Two goroutines call Convert at the same time with the same bytes and    *)
(* the same *Option, each with a sink of its own.  The field               *)
(* customRulesMap of the Option is the one memory both calls write and     *)
(* read: option[1].customRulesMap.  Of each call, calls holds the position *)
(* pc, the index k of the rule it stores next, the index i of the child of *)
(* body its traversal dispatches next, the counter n of walk's loop over   *)
(* body, the bytes w it has written and the log of what it dispatched.  A  *)
(* step is one access to the shared field or what lies between two         *)
(* accesses; the lookups below a child of body are taken with that of the  *)
(* child.                                                                   *)
(***************************************************************************)

Routines == {1, 2}

\* The element body of the parsed tree.
BodyOf(tree) == tree.Child[1].Child[2]

\* go Convert(w1, r1, option); go Convert(w2, r2, option)
RaceInit ==
  /\ src \in {Reader(d) : d \in RuleDocs}
  /\ option \in {WithRules(rules) : rules \in RuleLists \ {<<>>}}
  /\ opt = EmptyOption
  /\ doc = <<>>
  /\ out = <<>>
  /\ log = <<>>
  /\ pc = "go"
  /\ err = "none"
  /\ run = 1
  /\ prior = <<>>
  /\ calls = [c \in Routines |->
               [pc |-> "call", k |-> 1, i |-> 1, n |-> 0, w |-> <<>>,
                log |-> <<>>]]

\* doc, err := html.Parse(r)
GoParse(c) ==
  /\ calls[c].pc = "call"
  /\ calls' = [calls EXCEPT ![c].pc = "parsed"]
  /\ UNCHANGED <<src, option, opt, doc, out, log, pc, err, run, prior>>

\* option.customRulesMap = make(map[string]WalkFunc)
GoMake(c) ==
  /\ calls[c].pc = "parsed"
  /\ option' = <<[option[1] EXCEPT !.customRulesMap = <<>>]>>
  /\ calls' = [calls EXCEPT ![c].pc = "fill"]
  /\ UNCHANGED <<src, opt, doc, out, log, pc, err, run, prior>>

\* option.customRulesMap[tag] = customWalk, for the k-th rule: the store is
\* into the map the field holds now.
GoStore(c) ==
  /\ calls[c].pc = "fill"
  /\ option' =
       <<[option[1] EXCEPT
            !.customRulesMap =
               makeRulesMap(<<option[1].CustomRules[calls[c].k]>>, @)]>>
  /\ calls' = [calls EXCEPT
       ![c].k = @ + 1,
       ![c].pc = IF calls[c].k = Len(option[1].CustomRules)
                 THEN "walk" ELSE "fill"]
  /\ UNCHANGED <<src, opt, doc, out, log, pc, err, run, prior>>

\* One turn of walk's loop over the children of body: the lookup
\* option.customRulesMap[strings.ToLower(c.Data)] is in the map the field
\* holds now.
GoVisit(c) ==
  /\ calls[c].pc = "walk"
  /\ \E v \in {visit(BodyOf(src.tree), calls[c].i, calls[c].n, 0, option[1])} :
       calls' = [calls EXCEPT
         ![c].w = @ \o v.w,
         ![c].log = @ \o v.log,
         ![c].n = v.n,
         ![c].i = @ + 1,
         ![c].pc = IF v.panic THEN "panic"
                   ELSE IF calls[c].i = Len(BodyOf(src.tree).Child)
                   THEN "walked" ELSE "walk"]
  /\ UNCHANGED <<src, option, opt, doc, out, log, pc, err, run, prior>>

\* fmt.Fprint(w, "\n"); return nil
GoNewline(c) ==
  /\ calls[c].pc = "walked"
  /\ calls' = [calls EXCEPT ![c].w = @ \o <<"\n">>, ![c].pc = "returned"]
  /\ UNCHANGED <<src, option, opt, doc, out, log, pc, err, run, prior>>

\* The call is about to store into or look up in the map while the other
\* call is about to store into it: the accesses may overlap, and the Go
\* runtime may then end the process (fatal error: concurrent map writes,
\* concurrent map read and map write).
GoFatal(c) ==
  /\ calls[c].pc \in {"fill", "walk"}
  /\ \E d \in Routines \ {c} : calls[d].pc = "fill"
  /\ calls' = [d \in Routines |-> [calls[d] EXCEPT !.pc = "fatal"]]
  /\ UNCHANGED <<src, option, opt, doc, out, log, pc, err, run, prior>>

NextRace ==
  \E c \in Routines :
    \/ GoParse(c)
    \/ GoMake(c)
    \/ GoStore(c)
    \/ GoVisit(c)
    \/ GoNewline(c)
    \/ GoFatal(c)

Race == RaceInit /\ [][NextRace]_vars

(***************************************************************************)
(* Properties of Convert.  They are stated on what the caller sees: the    *)
(* document handed in (src, which Convert never changes), the rules, the   *)
(* bytes in the sink and the error returned.                                *)
(***************************************************************************)

\* Convert has returned nil.
Done == pc = "returned" /\ err = "nil"

\* The children of the document's body element.
Body == src.tree.Child[1].Child[2].Child

\* The body holds one element, or one element between two words.
Framed == ~src.fail /\ Len(Body) \in {1, 3} /\ Body[(Len(Body) + 1) \div 2].Type = "Element"

TheElement == Body[(Len(Body) + 1) \div 2]

\* The words around the element; they render as they are.
Pre == IF Len(Body) = 3 THEN Body[1].Data ELSE <<>>

Post == IF Len(Body) = 3 THEN Body[3].Data ELSE <<>>

\* The rendered subtree of the element: what walk writes for its children.
Rendered == walk(TheElement, 0, opt).w

\* The leading and the trailing Unicode white space of s.
Lead(s) == SubSeq(s, 1, Len(s) - Len(TrimLeftSpace(s)))

Trail(s) == SubSeq(s, Len(TrimRightSpace(s)) + 1, Len(s))

\* The delimiter of an emphasis tag.
Delim(tag) ==
  CASE tag \in {Tag.b, Tag.strong} -> <<"*", "*">>
    [] tag \in {Tag.i, Tag.em} -> <<"_">>
    [] tag \in {Tag.del, Tag.s} -> <<"~", "~">>

\* C1: an emphasis element whose rendered subtree holds a character that is
\* not white space is written as the subtree's leading white space, the
\* delimiter, the subtree without its leading and trailing white space, the
\* delimiter, and the subtree's trailing white space.
C1_EmphasisHugsContent ==
  (Done /\ Framed /\ TheElement.Data \in EmphasisTags /\ TrimSpace(Rendered) # <<>>)
    => out = Pre \o Lead(Rendered) \o Delim(TheElement.Data)
             \o TrimSpace(Rendered) \o Delim(TheElement.Data)
             \o Trail(Rendered) \o Post \o <<"\n">>

\* C2: an emphasis or link element whose rendered subtree is empty or only
\* white space is written as that white space, unchanged, with no delimiter,
\* bracket or parenthesis.
C2_BlankSubtreeUnchanged ==
  (Done /\ Framed /\ TheElement.Data \in EmphasisTags \cup {Tag.a}
        /\ TrimSpace(Rendered) = <<>>)
    => out = Pre \o Rendered \o Post \o <<"\n">>

\* Hi<strong>  </strong>h has been converted to "Hi h" and a newline.
C2_BlankStrongBetweenWords ==
  /\ Done
  /\ Framed
  /\ Body = <<Hello, Elem(Tag.strong, <<>>, <<Text(<<" ", " ">>)>>), Text(<<"h">>)>>
  /\ Rendered = <<" ">>
  /\ out = <<"H", "i", " ", "h", "\n">>

\* C3: a link whose rendered subtree holds a character that is not white
\* space is written as the subtree's leading white space, "[", the subtree
\* without its leading and trailing white space, "](href)" or
\* "](href "title")", and the subtree's trailing white space.
C3_LinkHugsContent ==
  (Done /\ Framed /\ TheElement.Data = Tag.a /\ TrimSpace(Rendered) # <<>>)
    => out = Pre \o Lead(Rendered) \o <<"[">> \o TrimSpace(Rendered)
             \o <<"]", "(">> \o attr(TheElement, Key.href)
             \o (IF attr(TheElement, Key.title) # <<>>
                 THEN <<" ">> \o Quote(attr(TheElement, Key.title)) ELSE <<>>)
             \o <<")">> \o Trail(Rendered) \o Post \o <<"\n">>

\* The rules the caller registered, in order.
Registry == opt.CustomRules

Registered(tag) == \E k \in 1..Len(Registry) : Registry[k].tag = tag

\* The rule registered last for the tag.
LastRule(tag) ==
  Registry[CHOOSE k \in 1..Len(Registry) :
             /\ Registry[k].tag = tag
             /\ \A m \in (k + 1)..Len(Registry) : Registry[m].tag # tag]

\* What a handler writes for an element whose children render as first on
\* the first call of the continuation and as again on the second.
ByHandler(h, first, again) ==
  CASE h.kind = "mute" -> <<h.mark>>
    [] h.kind = "wrap" -> <<h.mark>> \o first \o <<h.mark>>
    [] h.kind = "twice" -> first \o <<h.mark>> \o again

\* The elements of the log that follow the html, head and body elements.
Dispatched == SubSeq(log, 4, Len(log))

Walked == pc \in {"walked", "returned"}

DivX == Elem(Tag.div, <<>>, <<X>>)

\* C4: when a rule is registered for a tag that has a built-in rule, every
\* element of that tag met in the conversion is rendered by the registered
\* rule and never by the built-in one; <div>x</div> is written as the rule
\* for div writes it, not as a block.
C4_ExtensionBeforeBuiltin ==
  Walked =>
    /\ \A k \in 1..Len(log) :
         (log[k].tag \in BuiltinTags /\ Registered(log[k].tag))
           => log[k].by \in {Registry[m].mark : m \in 1..Len(Registry)}
    /\ (Done /\ Body = <<DivX>> /\ Registered(Tag.div))
         => out = ByHandler(LastRule(Tag.div), <<"x">>, <<"x">>) \o <<"\n">>

\* <div>x</div> with a rule for div that writes "=" around the children has
\* been converted to "=x=" and a newline.
C4_DivByRule ==
  /\ Done
  /\ Body = <<DivX>>
  /\ Registry = <<CustomRule(Tag.div, "wrap", "=")>>
  /\ log[4] = [tag |-> Tag.div, by |-> "="]
  /\ out = <<"=", "x", "=", "\n">>

\* The marks of the rules that a later rule for the same tag replaced.
Superseded ==
  {Registry[k].mark : k \in {j \in 1..Len(Registry) :
                               Registry[j].mark # LastRule(Registry[j].tag).mark}}

TestX == Elem(Tag.test, <<>>, <<X>>)

\* C5: with several rules registered for one tag, every element of the tag
\* is handled once, by the rule registered last: the log names that rule,
\* no byte of a replaced rule reaches the output, and <test>x</test> is
\* written as the last rule for test writes it.
C5_LastRuleWins ==
  Walked =>
    /\ \A k \in 1..Len(log) :
         Registered(log[k].tag) => log[k].by = LastRule(log[k].tag).mark
    /\ \A k \in 1..Len(out) : out[k] \notin Superseded
    /\ (Done /\ Body = <<TestX>> /\ Registered(Tag.test))
         => /\ out = ByHandler(LastRule(Tag.test), <<"x">>, <<"x">>) \o <<"\n">>
            /\ Len(Dispatched) = 1

\* <test>x</test> with a rule that wraps in "_" and a later rule that writes
\* "X" alone has been converted to "X" and a newline.
C5_SecondOfTwoRules ==
  /\ Done
  /\ Body = <<TestX>>
  /\ Registry = <<CustomRule(Tag.test, "wrap", "_"), CustomRule(Tag.test, "mute", "X")>>
  /\ out = <<"X", "\n">>

\* The traversal of the children of the body's only element, and the one of
\* the element as that traversal left it.
First == walk(Body[1], 0, opt)

Again == walk(First.node, 0, opt)

\* C6: an element with a registered rule contributes what the handler
\* writes, and its children are rendered as often as the handler calls the
\* continuation: not at all, once or twice.  An element whose tag has
\* neither a registered rule nor a built-in one is handled by no rule.
C6_HandlerReplacesDefault ==
  /\ (Done /\ Len(Body) = 1 /\ Body[1].Type = "Element" /\ Registered(Body[1].Data))
       => /\ out = ByHandler(LastRule(Body[1].Data), First.w, Again.w) \o <<"\n">>
          /\ Dispatched
               = <<[tag |-> Body[1].Data, by |-> LastRule(Body[1].Data).mark]>>
                 \o (CASE LastRule(Body[1].Data).kind = "mute" -> <<>>
                       [] LastRule(Body[1].Data).kind = "wrap" -> First.log
                       [] LastRule(Body[1].Data).kind = "twice" ->
                            First.log \o Again.log)
  /\ Walked =>
       \A k \in 1..Len(log) :
         (~Registered(log[k].tag) /\ log[k].tag \notin BuiltinTags)
           => log[k].by = "default"
  /\ (Done /\ Body = <<Elem(Tag.span, <<>>, <<X>>)>>) => out = <<"x", "\n">>

\* <test>x</test> with a rule that writes "_", calls the continuation and
\* writes "_" has been converted to "_x_" and a newline.
C6_WrapCallsOnce ==
  /\ Done
  /\ Body = <<TestX>>
  /\ Registry = <<CustomRule(Tag.test, "wrap", "_")>>
  /\ out = <<"_", "x", "_", "\n">>

\* The number a line starts with when it starts with a list marker "k. ",
\* and 0 when it does not.
MarkerOf(line) ==
  IF Len(line) >= 3 /\ line[2] = "." /\ line[3] = " "
     /\ \E k \in 1..9 : Digits[k + 1] = line[1]
  THEN CHOOSE k \in 1..9 : Digits[k + 1] = line[1]
  ELSE 0

\* The markers of the lines, in order; those of a list one level down are
\* on lines indented by four spaces.
Markers(lines) ==
  SelectSeq([k \in 1..Len(lines) |-> MarkerOf(lines[k])], LAMBDA m : m # 0)

Outdent(lines) ==
  [k \in 1..Len(lines) |->
     IF HasPrefix(lines[k], Indent) THEN SubSeq(lines[k], 5, Len(lines[k]))
     ELSE <<>>]

OneTo(n) == [k \in 1..n |-> k]

\* The li children of a list element.
Items(list) == SelectSeq(list.Child, LAMBDA c : c.Data = Tag.li)

\* The ol elements among the children of an item.
Sublists(li) == SelectSeq(li.Child, LAMBDA c : c.Data = Tag.ol)

\* C7: the markers of the li children of an ol are 1, 2, ..., N in document
\* order, N being the number of li children, blank ones included; the
\* markers of an ol inside an item start again at 1.
C7_OrderedItemsNumbered ==
  (Done /\ Len(Body) = 1 /\ Body[1].Data = Tag.ol)
    => LET items == Items(Body[1])
       IN /\ Markers(Split(out)) = OneTo(Len(items))
          /\ Markers(Outdent(Split(out)))
               = Concat([k \in 1..Len(items) |->
                   Concat([j \in 1..Len(Sublists(items[k])) |->
                     OneTo(Len(Items(Sublists(items[k])[j])))])])

\* A table is the only child of the body.
Tabled == ~src.fail /\ Len(Body) = 1 /\ Body[1].Data = Tag.table

\* The rows of the table: those of its sections, in the order of the
\* document.
Trs == Concat([k \in 1..Len(Body[1].Child) |-> Body[1].Child[k].Child])

\* A table is the only child of the body and its cells hold text only.
TableDoc ==
  /\ Tabled
  /\ \A i \in 1..Len(Trs) :
       \A j \in 1..Len(Trs[i].Child) :
         \A k \in 1..Len(Trs[i].Child[j].Child) :
           Trs[i].Child[j].Child[k].Type = "Text"

\* The text of the j-th cell of the i-th row, empty where the row is short.
CellText(i, j) ==
  IF j <= Len(Trs[i].Child) /\ Trs[i].Child[j].Child # <<>>
  THEN Trs[i].Child[j].Child[1].Data
  ELSE <<>>

Max(S) == CHOOSE x \in S : \A y \in S : y <= x

Columns == Max({0} \cup {Len(Trs[i].Child) : i \in 1..Len(Trs)})

\* w_j: the largest display width of a cell of column j.
ColumnWidth(j) == Max({StringWidth(CellText(i, j)) : i \in 1..Len(Trs)})

\* Row i as it has to be written: every column is the cell text, then spaces
\* up to the column's width.
PaddedRow(i) ==
  Concat([j \in 1..Columns |->
    <<"|">> \o CellText(i, j)
    \o [k \in 1..(ColumnWidth(j) - StringWidth(CellText(i, j))) |-> " "]])
  \o <<"|">>

\* The line of the output that holds row i: the rule follows the first row.
RowOfOutput(i) == Split(out)[IF i = 1 THEN 1 ELSE i + 1]

\* C8: every row of a rendered table, short rows included, writes column j
\* as the cell text followed by spaces up to the largest display width of
\* the column's cells, and no padding has a negative length (which would
\* stop the conversion with a panic).
C8_ColumnsPadded ==
  TableDoc =>
    /\ pc # "panic"
    /\ Done => \A i \in 1..Len(Trs) : RowOfOutput(i) = PaddedRow(i)

\* A table whose first row is the cell "a" and whose second row is a wide
\* character and "a" has been written with the first row padded to two
\* columns and filled up with an empty second column.
C8_ShortRowPadded ==
  /\ Done
  /\ TableDoc
  /\ Len(Trs[1].Child) = 1
  /\ CellText(1, 1) = <<"a">>
  /\ CellText(2, 1) = <<"xE3", "x81", "x82">>
  /\ CellText(2, 2) = <<"a">>
  /\ RowOfOutput(1) = <<"|", "a", " ", "|", " ", "|">>
  /\ RowOfOutput(2) = <<"|", "xE3", "x81", "x82", "|", "a", "|">>

\* The img element has no src, or an empty one.
NoSrc(img) == \A k \in 1..Len(img.Attr) : img.Attr[k].Key = Key.src => img.Attr[k].Val = <<>>

\* C9: an img whose src is empty or absent contributes nothing, whatever
\* its alt and title: alone it leaves only the final newline, and inside a
\* paragraph the paragraph is written as if the img were not there.
C9_ImageWithoutSrcSilent ==
  (Done /\ Len(Body) = 1)
    => /\ (Body[1].Data = Tag.img /\ NoSrc(Body[1])) => out = <<"\n">>
       /\ (Body[1].Data = Tag.p /\ Len(Body[1].Child) = 3
           /\ Body[1].Child[2].Data = Tag.img /\ NoSrc(Body[1].Child[2]))
            => out = <<"x", "*", "*", "x", "*", "*", "\n", "\n", "\n">>

\* <img src="" alt="f b"> has been converted to a newline.
C9_EmptySrcConverted ==
  /\ Done
  /\ Body = <<Elem(Tag.img, <<Att(Key.src, <<>>), Att(Key.alt, <<"f", " ", "b">>)>>, <<>>)>>
  /\ out = <<"\n">>

\* C10: when the reader fails, Convert returns the reader's error and does
\* nothing else: it writes nothing, walks nothing, does not panic, its
\* return is the one step it can take and after it there is none.
C10_ParseErrorReturned ==
  src.fail =>
    /\ out = <<>>
    /\ log = <<>>
    /\ doc = <<>>
    /\ pc \in {"call", "returned"}
    /\ pc = "call" => ENABLED ParseError /\ ~ENABLED (Parse \/ Rules \/ Walk \/ Newline)
    /\ pc = "returned" => err = "unexpected EOF" /\ ~ENABLED Next

\* Convert has returned the error of a failing reader.
C10_ErrorReturned ==
  /\ src.fail
  /\ pc = "returned"
  /\ err = "unexpected EOF"
  /\ out = <<>>

\* C11: a second Convert on the same bytes, with the *Option the first call
\* used and left behind, writes byte for byte what the first call wrote.
C11_SecondRunSame == (run = 2 /\ Done) => out = prior

\* <test>x</test> has been converted twice with the same option and a rule
\* for test, and both calls wrote "_x_" and a newline.
C11_RuleReused ==
  /\ run = 2
  /\ Done
  /\ Body = <<TestX>>
  /\ option # <<>>
  /\ option[1].CustomRules = <<CustomRule(Tag.test, "wrap", "_")>>
  /\ prior = <<"_", "x", "_", "\n">>
  /\ out = prior

\* What the traversal of the whole document writes.
Traversal == walk(src.tree, 0, opt).w

\* C12: when Convert returns nil the sink holds the traversal's output and
\* then one newline, written last: the output is not empty, ends in "\n",
\* and the call has no step left that writes.
C12_OneTrailingNewline ==
  /\ pc = "walked" => out = Traversal
  /\ Done => /\ out = Traversal \o <<"\n">>
             /\ out # <<>>
             /\ out[Len(out)] = "\n"
             /\ ~ENABLED (Walk \/ Newline)

\* <div>x</div> has been converted to "x", the newline of the div and the
\* newline of Convert.
C12_NewlineAfterBlock ==
  /\ Done
  /\ Body = <<DivX>>
  /\ Registry = <<>>
  /\ Traversal = <<"x", "\n">>
  /\ out = <<"x", "\n", "\n">>

\* The body is one code block: a pre, or a blockquote of class code.
IsPre == ~src.fail /\ Len(Body) = 1 /\ Body[1].Data = Tag.pre

IsCodeQuote ==
  /\ ~src.fail
  /\ Len(Body) = 1
  /\ Body[1].Data = Tag.blockquote
  /\ hasClass(Body[1], <<"c", "o", "d", "e">>)

\* The option as the caller gave it has a guesser that answers, that fails.
Guessed == option # <<>> /\ option[1].GuessLang = "ok"

GuessFails == option # <<>> /\ option[1].GuessLang = "err"

\* The first line of the output.
OpeningFence == Split(out)[1]

\* The language-xxx classes of a class attribute, without the prefix.
Languages(classes) ==
  SelectSeq([k \in 1..Len(Fields(classes)) |->
               IF HasPrefix(Fields(classes)[k], LanguagePrefix)
               THEN <<SubSeq(Fields(classes)[k], Len(LanguagePrefix) + 1,
                             Len(Fields(classes)[k]))>>
               ELSE <<>>],
            LAMBDA hit : hit # <<>>)

\* The children of the element that are code elements with a language class.
Labelled(element) ==
  SelectSeq(element.Child,
            LAMBDA kid : /\ kid.Type = "Element"
                         /\ kid.Data = Tag.code
                         /\ Languages(attr(kid, Key.class)) # <<>>)

\* The language of the first language-xxx class of a code child, or nothing.
ChildLanguage(element) ==
  IF Labelled(element) = <<>> THEN <<>>
  ELSE Languages(attr(Labelled(element)[1], Key.class))[1][1]

\* The language of the first language-xxx class of the first child when it
\* is a code element, or nothing.
FirstChildLanguage(element) ==
  IF Labelled(element) # <<>> /\ element.Child[1] = Labelled(element)[1]
  THEN ChildLanguage(element)
  ELSE <<>>

\* C13: the opening fence of a pre block carries the guesser's answer when a
\* guesser is configured and answers, otherwise the suffix of the first
\* language-xxx class of a code element that is a child of the pre,
\* otherwise nothing; the opening fence of a blockquote of class code
\* carries the guesser's answer or nothing.
C13_FenceLanguage ==
  /\ (Done /\ IsPre) =>
       OpeningFence = Fence \o (IF Guessed THEN <<"p", "y">>
                                ELSE ChildLanguage(Body[1]))
  /\ (Done /\ IsCodeQuote) =>
       OpeningFence = Fence \o (IF Guessed THEN <<"p", "y">> ELSE <<>>)

\* The text between the fences of the code block, as the output has to hold it.
Content ==
  IF IsPre THEN pre(Body[1]) ELSE TrimLeft(bq(Body[1]), {"\n"})

\* The whole output for a code block whose opening fence carries lang.
Fenced(lang) ==
  Fence \o lang \o <<"\n">> \o Content
  \o (IF HasSuffixNL(Content) THEN <<>> ELSE <<"\n">>)
  \o Fence \o <<"\n", "\n", "\n">>

\* C14 as stated: when the guesser fails the conversion still returns nil,
\* the content is fenced, and the opening fence carries no language.
C14_NoLanguageWhenGuessFails ==
  (GuessFails /\ (IsPre \/ IsCodeQuote)) =>
     /\ pc # "panic"
     /\ pc = "returned" => (err = "nil" /\ out = Fenced(<<>>))

\* C14: when the guesser fails the conversion still returns nil and the
\* content is fenced; the opening fence carries nothing from the guesser: for
\* a pre it carries the language class of the first child when that is a
\* code element, for a blockquote of class code it carries nothing.
C14_GuessErrorSwallowed ==
  (GuessFails /\ (IsPre \/ IsCodeQuote)) =>
     /\ pc # "panic"
     /\ pc = "returned" =>
          /\ err = "nil"
          /\ out = Fenced(IF IsPre THEN FirstChildLanguage(Body[1]) ELSE <<>>)

\* <pre><code class="f language-go">x</code></pre> has been converted with a
\* failing guesser: the fence carries go.
C14_ClassKeptWhenGuessFails ==
  /\ Done
  /\ GuessFails
  /\ Body = <<Elem(Tag.pre, <<>>,
               <<Code(<<Att(Key.class, <<"f", " ">> \o LanguagePrefix \o Go)>>)>>)>>
  /\ out = Fence \o Go \o <<"\n", "x", "\n">> \o Fence \o <<"\n", "\n", "\n">>

\* The body holds one script or style element, alone or beside one word.
Scripted ==
  /\ ~src.fail
  /\ \E k \in 1..Len(Body) : Body[k].Data \in {Tag.script, Tag.style}
  /\ \A k \in 1..Len(Body) : Body[k].Data \in {Tag.script, Tag.style, <<"a">>}

TheScript == Body[CHOOSE k \in 1..Len(Body) : Body[k].Type = "Element"]

\* The flag of the element is set in the option the caller gave.
Enabled ==
  /\ option # <<>>
  /\ IF TheScript.Data = Tag.script THEN option[1].Script ELSE option[1].Style

\* The text of the children, as the parser gave it.
RECURSIVE Children(_)
Children(kids) ==
  IF kids = <<>> THEN <<>> ELSE Head(kids).Data \o Children(Tail(kids))

\* The element as literal HTML; the value of an attribute is written with
\* the entities of HTML.
Literal(element) ==
  <<"<">> \o element.Data
  \o (IF element.Attr = <<>> THEN <<>>
      ELSE <<" ">> \o element.Attr[1].Key \o <<"=", "\"">>
           \o escapeString(element.Attr[1].Val) \o <<"\"">>)
  \o <<">">> \o Children(element.Child)
  \o <<"<", "/">> \o element.Data \o <<">">>

\* The word before the element and the word after it.
Before == IF Body[1].Type = "Text" THEN Body[1].Data ELSE <<>>

After == IF Body[Len(Body)].Type = "Text" THEN Body[Len(Body)].Data ELSE <<>>

\* C15: a script (style) element whose flag is not set, or met with no
\* option, adds nothing to the output, its text included; when the flag is
\* set it is written as literal HTML with its children as they are, on a
\* line of its own and followed by a blank line.
C15_ScriptOnlyWhenEnabled ==
  (Done /\ Scripted) =>
     out = Before
           \o (IF Enabled
               THEN (IF Before = <<>> THEN <<>> ELSE <<"\n">>)
                    \o Literal(TheScript) \o <<"\n", "\n">>
               ELSE <<>>)
           \o After \o <<"\n">>

\* a<style>b {_}\n</style> has been converted with the Style flag set and
\* the Script flag not set.
C15_StyleWritten ==
  /\ Done
  /\ Scripted
  /\ option = WithFlags(FALSE, TRUE)
  /\ out = <<"a", "\n", "<", "s", "t", "y", "l", "e", ">", "b", " ", "{", "_",
             "}", "\n", "<", "/", "s", "t", "y", "l", "e", ">", "\n", "\n", "\n">>

\* C16: whatever the nesting of the document, an li outside every list and
\* a table row or cell outside every table included, the traversal does not
\* panic and Convert returns nil.
C16_MalformedNeverFails ==
  ~src.fail => /\ pc # "panic"
               /\ pc = "returned" => err = "nil"

\* The bytes Markdown gives a meaning to.
Significant ==
  {"\\", "*", "_", "[", "]", "(", ")", "<", ">", "#", "+", "-", "!", "x60"}

\* t with one backslash before each of these bytes and nothing else changed.
Backslashed(t) ==
  Concat([k \in 1..Len(t) |->
            IF t[k] \in Significant THEN <<"\\", t[k]>> ELSE <<t[k]>>])

\* The body is the text t in the place.
In(place, t) == ~src.fail /\ Body = <<Placed(place, t)>>

\* C17: a text met by the normal traversal, in the body or in a b element,
\* is written with one backslash before each occurrence of a byte Markdown
\* gives a meaning to and is otherwise unchanged; a text under a pre, an
\* inline code element or a blockquote of class code is written with no
\* backslash added.
C17_SignificantEscaped ==
  \A t \in EscapeTexts :
    /\ (Done /\ In("body", t)) => out = Backslashed(t) \o <<"\n">>
    /\ (Done /\ In("b", t)) =>
         out = <<"*", "*">> \o Backslashed(t) \o <<"*", "*", "\n">>
    /\ (Done /\ In("code", t)) => out = <<"x60">> \o t \o <<"x60", "\n">>
    /\ (Done /\ (In("pre", t) \/ In("precode", t) \/ In("bqcode", t))) =>
         out = Fence \o <<"\n">> \o t \o <<"\n">> \o Fence \o <<"\n", "\n", "\n">>

\* The text \* has been converted in the body: each of its two bytes has one
\* backslash before it.
C17_BackslashStarEscaped ==
  /\ Done
  /\ In("body", <<"\\", "*">>)
  /\ out = <<"\\", "\\", "\\", "*", "\n">>

\* The two words with one space between them.
OneSpace == <<"a", " ", "b">>

\* C18: a text of two words with a run of spaces, tabs and newlines between
\* them is written with one space between the words, in the body and in a b
\* element; collapsing the collapsed text again leaves it as it is.
C18_GapCollapsed ==
  \A t \in GapTexts :
    /\ (Done /\ In("body", t)) => out = OneSpace \o <<"\n">>
    /\ (Done /\ In("b", t)) => out = <<"*", "*">> \o OneSpace \o <<"*", "*", "\n">>
    /\ ((pc = "call" /\ (In("body", t) \/ In("b", t)))
          => CollapseSpace(CollapseSpace(t)) = CollapseSpace(t))

\* The text a, tab, newline, space, b has been converted in the body.
C18_MixedGapCollapsed ==
  /\ Done
  /\ In("body", <<"a", "\t", "\n", " ", "b">>)
  /\ out = <<"a", " ", "b", "\n">>

\* The last rule registered for the test element calls its continuation
\* twice.
RendersTwice ==
  /\ ~src.fail
  /\ Len(Body) = 1
  /\ Body[1].Data = Tag.test
  /\ Registered(Tag.test)
  /\ LastRule(Tag.test).kind = "twice"

\* What one traversal of the children of the parsed test element writes.
Once == walk(src.tree.Child[1].Child[2].Child[1], 0, opt).w

\* C19: after the traversal the document is the tree the parser produced,
\* every table with its rows; a handler that calls its continuation twice
\* on the same element gets the same text both times.
C19_TreeUnchanged ==
  /\ (Walked /\ ~src.fail) => doc = <<src.tree>>
  /\ (Done /\ RendersTwice) => out = Once \o <<"^">> \o Once \o <<"\n">>

\* The body is one img element whose src is not empty.
Pictured ==
  /\ ~src.fail
  /\ Len(Body) = 1
  /\ Body[1].Data = Tag.img
  /\ ~NoSrc(Body[1])

\* C20: an img with a src that is not empty is written as ![alt](src), or
\* as ![alt](src "title") when it has a title, with alt, src and title as
\* they are in the attributes, percent signs included.
C20_ImageVerbatim ==
  (Done /\ Pictured) =>
     out = <<"!", "[">> \o attr(Body[1], Key.alt) \o <<"]", "(">>
           \o attr(Body[1], Key.src)
           \o (IF attr(Body[1], Key.title) = <<>> THEN <<>>
               ELSE <<" ", "\"">> \o attr(Body[1], Key.title) \o <<"\"">>)
           \o <<")", "\n">>

\* The caller asked for trimmed white space and the body is a block element,
\* alone or after one sibling.
Trimming ==
  /\ ~src.fail
  /\ option = WithTrim
  /\ Len(Body) \in {1, 2}
  /\ Body[Len(Body)].Data \in
       {Tag.div, Tag.p, <<"h", "2">>, Tag.hr, Tag.br, Tag.pre}

\* What the sibling before the block element writes while white space is
\* trimmed: a blank text writes nothing.
SiblingText ==
  IF Len(Body) = 1 THEN <<>>
  ELSE CASE Body[1].Type = "Text" ->
              IF Body[1].Data = <<" ">> THEN <<>> ELSE <<"a">>
         [] Body[1].Data = Tag.b -> <<"*", "*", "x", "*", "*">>
         [] Body[1].Data = Tag.img ->
              <<"!", "[", "f", "]", "(", "s", ")">>
         [] Body[1].Data = Tag.p -> <<"x", "\n", "\n">>

\* What the block element writes when each of its boundaries writes nl.
BlockText(element, nl) ==
  CASE element.Data = Tag.div -> nl \o <<"x", "\n">>
    [] element.Data = Tag.p -> nl \o <<"x">> \o nl \o <<"\n", "\n">>
    [] element.Data = <<"h", "2">> -> nl \o <<"#", "#", " ", "x", "\n", "\n">>
    [] element.Data = Tag.hr -> nl \o <<"\n", "-", "-", "-", "\n", "\n">>
    [] element.Data = Tag.br -> nl \o <<"\n", "\n">>
    [] element.Data = Tag.pre ->
         nl \o Fence \o <<"\n", "x", "\n">> \o Fence \o <<"\n", "\n">>

\* The list item <b>x</b><div>x</div> of a ul, converted with no option.
ItemOfTwo ==
  /\ ~src.fail
  /\ option = <<>>
  /\ Len(Body) = 1
  /\ Body[1].Data = Tag.ul
  /\ Len(Body[1].Child) = 1
  /\ Len(Body[1].Child[1].Child) = 2
  /\ Body[1].Child[1].Child[2].Data = Tag.div

\* C21 as stated: while white space is trimmed every boundary of a block
\* element writes one newline, whatever is before the element, nothing
\* included.
C21_BoundaryAlwaysNewline ==
  (Done /\ Trimming) =>
     out = SiblingText \o BlockText(Body[Len(Body)], <<"\n">>) \o <<"\n">>

\* C21: while white space is trimmed every boundary of a block element that
\* has a sibling before it writes one newline, whatever that sibling is; a
\* boundary of an element with no sibling before it writes nothing.  In a
\* list item the block element after an inline element starts a new line.
C21_BoundaryNewlineAfterSibling ==
  /\ (Done /\ Trimming) =>
       out = SiblingText
             \o BlockText(Body[Len(Body)],
                          IF Len(Body) = 1 THEN <<>> ELSE <<"\n">>)
             \o <<"\n">>
  /\ (Done /\ ItemOfTwo) =>
       out = <<"*", " ", "*", "*", "x", "*", "*", "\n",
               " ", " ", " ", " ", "x", "\n", "\n", "\n">>

\* <b>x</b><p>x</p> has been converted with TrimSpace set: both boundaries
\* of the p have written a newline.
C21_NewlineAfterInline ==
  /\ Done
  /\ Trimming
  /\ Body = <<Elem(Tag.b, <<>>, <<X>>), Elem(Tag.p, <<>>, <<X>>)>>
  /\ out = <<"*", "*", "x", "*", "*", "\n", "x", "\n", "\n", "\n", "\n">>

\* The lines of the output that are not empty.
Written == SelectSeq(Split(out), LAMBDA line : line # <<>>)

\* The number of vertical bars of a line.
Bars(line) == Len(SelectSeq(line, LAMBDA c : c = "|"))

\* C22: every row of a table is written on one line of Columns cells between
\* Columns + 1 vertical bars, Columns being the largest number of cells of a
\* row, whatever the cells hold (a line break, a paragraph, a vertical bar):
\* the output has a line for each row and at most one more for the rule, and
\* each of them has Columns + 1 vertical bars.
C22_RowIsOneLine ==
  (Done /\ Tabled) =>
     /\ Len(Written) \in {Len(Trs), Len(Trs) + 1}
     /\ \A k \in 1..Len(Written) : Bars(Written[k]) = Columns + 1

\* The first row of the table holds th cells.
Header ==
  /\ Trs # <<>>
  /\ \E j \in 1..Len(Trs[1].Child) : Trs[1].Child[j].Data = Tag.th

\* The row of dashes: for every column as many dashes as the column is wide.
RuleRow ==
  Concat([j \in 1..Columns |-> <<"|">> \o [k \in 1..ColumnWidth(j) |-> "-"]])
  \o <<"|">>

\* C23: a table whose first row holds th cells is written as that row, one
\* row of dashes, and the other rows; a table whose first row holds td
\* cells only is written as its rows, with no row of dashes; no row of
\* dashes follows a later row.
C23_RuleAfterHeaderOnly ==
  (Done /\ TableDoc) =>
     IF Header
     THEN /\ Len(Written) = Len(Trs) + 1
          /\ Written[1] = PaddedRow(1)
          /\ Written[2] = RuleRow
          /\ \A i \in 2..Len(Trs) : Written[i + 1] = PaddedRow(i)
     ELSE /\ Len(Written) = Len(Trs)
          /\ \A i \in 1..Len(Trs) : Written[i] = PaddedRow(i)

\* The body is one blockquote that is not of class code.
Quoting ==
  /\ ~src.fail
  /\ Len(Body) = 1
  /\ Body[1].Data = Tag.blockquote
  /\ ~hasClass(Body[1], Tag.code)

\* The lines of s without the white space around them, each after "> ".
RECURSIVE Prefixed(_)
Prefixed(lines) ==
  IF lines = <<>> THEN <<>>
  ELSE <<">", " ">> \o TrimSpace(Head(lines)) \o <<"\n">> \o Prefixed(Tail(lines))

\* The children of the blockquote rendered one level deeper than the
\* blockquote itself, which is met at depth 0.
Deeper == walk(Body[1], 1, opt).w

\* C24: a blockquote that is not of class code is written as the lines of
\* its body, rendered at the depth of the blockquote plus one, each without
\* the white space around it and after "> ", and then a blank line; so every
\* line written for it starts with "> ", and a blockquote inside k - 1
\* others has k copies of "> " before its lines.
C24_QuoteLinesPrefixed ==
  (Quoting /\ Walked) =>
     /\ pc # "panic"
     /\ Done =>
          /\ out = Prefixed(Split(TrimSpace(Deeper))) \o <<"\n", "\n">>
          /\ \A k \in 1..(Len(Split(out)) - 3) : HasPrefix(Split(out)[k], <<">", " ">>)
          /\ Body[1].Child = <<Quote1(<<Quote1(<<X>>)>>)>> =>
               out = <<">", " ", ">", " ", ">", " ", "x", "\n", "\n", "\n">>
          /\ Body[1].Child = <<Li(<<Text(<<"a">>)>>)>> =>
               out = <<">", " ", "a", "\n", "\n", "\n">>

\* <blockquote><ul><li>a</li></ul>b</blockquote> has been converted: the
\* list, one level deep, is not followed by a blank line, and its item is
\* written without the white space before it.
C24_ListQuoted ==
  /\ Done
  /\ Quoting
  /\ Len(Body[1].Child) = 2
  /\ Body[1].Child[1].Data = Tag.ul
  /\ out = <<">", " ", "*", " ", "a", "\n", ">", " ", "b", "\n", "\n", "\n">>

\* Every child of the list is an li that holds a word and then, at most, one
\* list of the same kind.
RECURSIVE Nested(_)
Nested(list) ==
  /\ list.Data \in {Tag.ul, Tag.ol}
  /\ list.Child # <<>>
  /\ \A k \in 1..Len(list.Child) :
       /\ list.Child[k].Data = Tag.li
       /\ Len(list.Child[k].Child) \in {1, 2}
       /\ list.Child[k].Child[1].Type = "Text"
       /\ TrimSpace(list.Child[k].Child[1].Data) = list.Child[k].Child[1].Data
       /\ list.Child[k].Child[1].Data # <<>>
       /\ Len(list.Child[k].Child) = 2 => Nested(list.Child[k].Child[2])

FourSpaces(count) == [k \in 1..(4 * count) |-> " "]

\* The lines of the list at depth d, from its k-th item on: for every item
\* 4 * (d - 1) spaces, the marker and the word, and then the lines of the
\* list the item holds, one level deeper.
RECURSIVE ListText(_, _, _)
ListText(list, k, d) ==
  IF k > Len(list.Child) THEN <<>>
  ELSE FourSpaces(d - 1)
       \o (IF list.Data = Tag.ul THEN <<"*", " ">> ELSE Itoa(k) \o <<".", " ">>)
       \o list.Child[k].Child[1].Data \o <<"\n">>
       \o (IF Len(list.Child[k].Child) = 2
           THEN ListText(list.Child[k].Child[2], 1, d + 1) ELSE <<>>)
       \o ListText(list, k + 1, d)

Letters == {"a", "b", "c", "d", "e", "x", "h", "H", "i", "v"}

LettersOf(s) == SelectSeq(s, LAMBDA c : c \in Letters)

\* The letters of the text nodes of the subtree, in document order.
RECURSIVE DocLetters(_)
DocLetters(node) ==
  IF node.Type = "Text" THEN LettersOf(node.Data)
  ELSE Concat([k \in 1..Len(node.Child) |-> DocLetters(node.Child[k])])

\* The subtree holds no script or style element, whose text is written only
\* on demand, and no attribute value with one of the letters.
RECURSIVE Lettered(_)
Lettered(node) ==
  /\ node.Data \notin {Tag.script, Tag.style}
  /\ \A k \in 1..Len(node.Attr) : LettersOf(node.Attr[k].Val) = <<>>
  /\ \A k \in 1..Len(node.Child) : Lettered(node.Child[k])

\* C26: with no extension rule, the letters of the output are the letters of
\* the text nodes in document order, whatever encloses the text nodes:
\* emphasis, links, lists, blockquotes, the sections of a table in the
\* order the document has them, unknown elements.
C26_DocumentOrder ==
  (Done /\ Registry = <<>> /\ Lettered(src.tree)) =>
     LettersOf(out) = DocLetters(src.tree)

\* A table whose tfoot comes first, then its tbody, then its thead has been
\* converted: the rows are written in that order.
C26_SectionsInOrder ==
  /\ Done
  /\ Tabled
  /\ Len(Body[1].Child) = 3
  /\ Body[1].Child[1].Data = Tag.tfoot
  /\ Body[1].Child[2].Data = Tag.tbody
  /\ Body[1].Child[3].Data = Tag.thead
  /\ out = <<"|", "a", "|", "\n", "|", "-", "|", "\n", "|", "b", "|", "\n",
             "|", "c", "|", "\n", "\n", "\n">>

RECURSIVE Total(_)
Total(counts) ==
  IF counts = <<>> THEN 0 ELSE Head(counts) + Total(Tail(counts))

\* The number of elements of the subtree.
RECURSIVE Elements(_)
Elements(node) ==
  (IF node.Type = "Element" THEN 1 ELSE 0)
  + Total([k \in 1..Len(node.Child) |-> Elements(node.Child[k])])

\* The number of elements of the subtree that a rule renders whose handler
\* calls its continuation twice.
RECURSIVE Doubled(_)
Doubled(node) ==
  (IF node.Type = "Element" /\ hasRule(opt, ToLower(node.Data))
      /\ opt.customRulesMap[ToLower(node.Data)].kind = "twice"
   THEN 1 ELSE 0)
  + Total([k \in 1..Len(node.Child) |-> Doubled(node.Child[k])])

\* The traversal dispatches every element at most once, and at most twice
\* as often per element whose rule calls its continuation twice.
Bounded ==
  (pc \in {"walked", "returned", "panic"} /\ ~src.fail) =>
     Len(log) <= Elements(src.tree) * 2 ^ Doubled(src.tree)

\* C27: every call of Convert comes to an end, by returning or by a panic,
\* and the traversal has dispatched every element of the finite tree a
\* bounded number of times: at most once when no rule calls its continuation
\* twice.
C27_TraversalTerminates ==
  /\ []Bounded
  /\ Running ~> (pc \in {"returned", "panic"})

\* A list of three levels has been converted: each of its eleven elements
\* and html, head and body were dispatched once.
C27_DeepTreeWalkedOnce ==
  /\ Done
  /\ ~src.fail
  /\ src.tree \in NestDocs
  /\ Len(log) = Elements(src.tree)
  /\ Len(log) = 3 + Elements(Body[1])

\* The Option as a call that runs alone has it after filling the map.
Filled ==
  [option[1] EXCEPT !.customRulesMap = makeRulesMap(option[1].CustomRules, <<>>)]

\* What a call that runs alone writes.
Alone == walk(src.tree, 0, Filled).w \o <<"\n">>

\* Every element the call dispatched whose tag has a rule was rendered by
\* the handler of the last rule registered for the tag.
ByRules(c) ==
  \A j \in 1..Len(calls[c].log) :
    hasRule(Filled, calls[c].log[j].tag) =>
      calls[c].log[j].by = Filled.customRulesMap[calls[c].log[j].tag].mark

\* C28: of two calls of Convert that run at the same time with the same
\* *Option, each one that returns rendered every element of a registered
\* tag by its rule and wrote what it writes when it runs alone.
C28_ConcurrentCallsAsAlone ==
  \A c \in DOMAIN calls :
    calls[c].pc = "returned" => ByRules(c) /\ calls[c].w = Alone

====
